---- MODULE Spec2Model ----
(***************************************************************************)
(* Adaptive language assessment (CEFR A1..C2): the adaptive engine of      *)
(* src/api.py and the request handlers that drive it against the session,  *)
(* response and question tables.                                           *)
(*                                                                         *)
(* Every handler is a sequence of SQL statements run through               *)
(* execute_query, each committed on its own.  Handlers run concurrently    *)
(* (FastAPI runs "def" endpoints on a thread pool; the Lambda/Vercel       *)
(* deployment runs several instances against one database), so each        *)
(* statement is one atomic step of a request and the steps of different    *)
(* requests interleave.                                                    *)
(*                                                                         *)
(* Representation                                                          *)
(*   text        a sequence of one-character strings                       *)
(*   NULL level  the string "NULL"                                         *)
(*   NULL time   0 (datetime.now() is modelled by a clock starting at 1)   *)
(*   float       a percentage is held in hundredths (66.67 is 6667);       *)
(*               NoScore (-1) is a NULL confidence_score                   *)
(***************************************************************************)
EXTENDS Integers, Sequences, FiniteSets, TLC

(* ------------------------------ bounds -------------------------------- *)

\* concurrent request slots (threads / instances serving requests)
MaxRequests == 2

\* requests admitted while another request is in flight
MaxOverlaps == 1

\* rows the session table may hold under Spec
MaxSessions == 1

\* rows the session table may hold under SpecStart
MaxStartSessions == 3

\* a session's first MaxFreeAnswers answers draw their inputs from the wide
\* input sets; later answers name the question posed last
MaxFreeAnswers == 0

\* incorrect answers a session is given
MaxWrongAnswers == 1

\* responses recorded on the in-memory engine of SpecEngine
MaxEngineResponses == 3

(* --------------------------- program constants ------------------------ *)

CEFR_LEVELS_ORDER == <<"A1", "A2", "B1", "B2", "C1", "C2">>

SKILL_TYPES_ORDER == <<"grammar", "vocabulary", "reading", "listening">>

max_questions == 10

NULL == "NULL"

NoTime == 0

NoScore == 0 - 1

NoQuestion == 0

Levels == {CEFR_LEVELS_ORDER[i] : i \in 1..Len(CEFR_LEVELS_ORDER)}

Skills == {SKILL_TYPES_ORDER[i] : i \in 1..Len(SKILL_TYPES_ORDER)}

(* ------------------------------- text --------------------------------- *)

\* str.lower() on one character
LowerChar(c) ==
    CASE c = "A" -> "a"
      [] c = "B" -> "b"
      [] OTHER -> c

\* str.lower()
Lower(s) == [i \in 1..Len(s) |-> LowerChar(s[i])]

IsSpace(c) == c = " "

RECURSIVE LStrip(_)
LStrip(s) ==
    IF s # <<>> /\ IsSpace(Head(s)) THEN LStrip(Tail(s)) ELSE s

RECURSIVE RStrip(_)
RStrip(s) ==
    IF s # <<>> /\ IsSpace(s[Len(s)]) THEN RStrip(SubSeq(s, 1, Len(s) - 1)) ELSE s

\* str.strip()
Strip(s) == RStrip(LStrip(s))

(* ------------------------------ the bank ------------------------------ *)

\* adaptive_assessment_questions: id -> row (the columns the engine reads)
InitBank ==
    <<[difficulty_level |-> "B1", skill_focus |-> "grammar",
       correct_answer |-> <<"a">>],
      [difficulty_level |-> "A2", skill_focus |-> "grammar",
       correct_answer |-> <<"A">>],
      [difficulty_level |-> "B2", skill_focus |-> "vocabulary",
       correct_answer |-> <<" ", "a">>]>>

\* users: the ids of the known test-takers
Users == {1}

\* student ids a start request may carry (2 is no user)
StudentInputs == {1, 2}

\* self_reported_level of a start request
SelfReportedInputs == {NULL, "C1"}

(* ------------------------- AdaptiveEngine ----------------------------- *)

\* the Question object built from a row of the bank
QuestionOf(bank, id) ==
    [id |-> id,
     difficulty_level |-> bank[id].difficulty_level,
     skill_focus |-> bank[id].skill_focus,
     correct_answer |-> bank[id].correct_answer]

NoQuestionObj ==
    [id |-> NoQuestion, difficulty_level |-> NULL, skill_focus |-> NULL,
     correct_answer |-> <<>>]

\* AdaptiveEngine.__init__
NewEngine(session_id) ==
    [session_id |-> session_id,
     current_level |-> "B1",
     responses |-> <<>>,
     skill_index |-> 0,
     questions_asked |-> 0]

\* CEFR_LEVELS_ORDER.index(level), 0-based as in the source
get_level_index(level) ==
    (CHOOSE i \in 1..Len(CEFR_LEVELS_ORDER) : CEFR_LEVELS_ORDER[i] = level) - 1

\* the level at a 0-based index
LevelAt(idx) == CEFR_LEVELS_ORDER[idx + 1]

\* a step up that skips a tier
increase_difficulty_skipping(level) ==
    LET idx == get_level_index(level)
    IN  IF idx < Len(CEFR_LEVELS_ORDER) - 2 THEN LevelAt(idx + 2)
        ELSE LevelAt(Len(CEFR_LEVELS_ORDER) - 1)

increase_difficulty(level) ==
    LET idx == get_level_index(level)
    IN  IF idx < Len(CEFR_LEVELS_ORDER) - 1 THEN LevelAt(idx + 1) ELSE level

decrease_difficulty(level) ==
    LET idx == get_level_index(level)
    IN  IF idx > 0 THEN LevelAt(idx - 1) ELSE level

\* the skill get_next_skill returns (it also bumps skill_index, see
\* get_next_question)
get_next_skill(skill_index) ==
    SKILL_TYPES_ORDER[(skill_index % Len(SKILL_TYPES_ORDER)) + 1]

\* _fetch_question with a fallback that takes any question of the bank
fetch_question_any_level(bank, level, skill) ==
    LET exact == {i \in DOMAIN bank : /\ bank[i].difficulty_level = level
                                      /\ bank[i].skill_focus = skill}
    IN  IF exact # {} THEN exact
        ELSE IF DOMAIN bank # {} THEN DOMAIN bank
        ELSE {NoQuestion}

\* _fetch_question without the fallback query on the level alone
fetch_question_without_fallback(bank, level, skill) ==
    LET exact == {i \in DOMAIN bank : /\ bank[i].difficulty_level = level
                                      /\ bank[i].skill_focus = skill}
    IN  IF exact # {} THEN exact ELSE {NoQuestion}

\* _fetch_question: the ids ORDER BY RAND() LIMIT 1 may return, first for the
\* (level, skill) pair, else for the level alone, else None
fetch_question(bank, level, skill) ==
    LET exact == {i \in DOMAIN bank : /\ bank[i].difficulty_level = level
                                      /\ bank[i].skill_focus = skill}
        fallback == {i \in DOMAIN bank : bank[i].difficulty_level = level}
    IN  IF exact # {} THEN exact
        ELSE IF fallback # {} THEN fallback
        ELSE {NoQuestion}

\* the level get_next_question asks for on a selection that is not the
\* warm-up: one step from current_level by the last response, if any
AdjustedLevel(e) ==
    IF e.responses # <<>>
    THEN IF e.responses[Len(e.responses)].is_correct
         THEN increase_difficulty(e.current_level)
         ELSE decrease_difficulty(e.current_level)
    ELSE e.current_level

\* get_next_question: every outcome it can have on engine e, as the engine
\* afterwards, the question returned (NoQuestion for None) and what the
\* selection asked the bank for
get_next_question(e, bank) ==
    IF e.questions_asked >= max_questions
    THEN {[engine |-> e, question |-> NoQuestion, selected |-> FALSE,
           warmup |-> FALSE, level |-> NULL, skill |-> NULL]}
    ELSE IF e.questions_asked = 0
    THEN {[engine |-> [e EXCEPT !.questions_asked = @ + 1],
           question |-> q, selected |-> TRUE,
           warmup |-> TRUE, level |-> "B1", skill |-> "grammar"] :
             q \in fetch_question(bank, "B1", "grammar")}
    ELSE LET lvl == AdjustedLevel(e)
             skill == get_next_skill(e.skill_index)
         IN  {[engine |-> [e EXCEPT !.current_level = lvl,
                                    !.skill_index = @ + 1,
                                    !.questions_asked = @ + 1],
               question |-> q, selected |-> TRUE,
               warmup |-> FALSE, level |-> lvl, skill |-> skill] :
                 q \in fetch_question(bank, lvl, skill)}

\* the grading comparison without lower()
IsCorrect_case_sensitive(student_answer, correct_answer) ==
    Strip(student_answer) = Strip(correct_answer)

\* record_response, line 301: the grading comparison
IsCorrect(student_answer, correct_answer) ==
    Lower(Strip(student_answer)) = Lower(Strip(correct_answer))

\* record_response: the engine afterwards, the row it inserts into
\* student_assessment_responses, and the value it returns
record_response(e, question, student_answer, time_taken) ==
    LET is_correct == IsCorrect(student_answer, question.correct_answer)
    IN  [engine |-> [e EXCEPT !.responses = Append(@,
                        [question_id |-> question.id,
                         level |-> question.difficulty_level,
                         skill |-> question.skill_focus,
                         is_correct |-> is_correct,
                         time_taken |-> time_taken,
                         student_answer |-> student_answer])],
         row |-> [session_id |-> e.session_id,
                  question_id |-> question.id,
                  question_sequence |-> e.questions_asked,
                  student_answer |-> student_answer,
                  is_correct |-> is_correct,
                  time_taken_seconds |-> time_taken,
                  difficulty_at_question |-> question.difficulty_level],
         is_correct |-> is_correct]

\* the responses of a sequence that were recorded at a level
AtLevel(rs, level) == SelectSeq(rs, LAMBDA x : x.level = level)

CorrectOnes(rs) == SelectSeq(rs, LAMBDA x : x.is_correct)

RECURSIVE SumTime(_)
SumTime(rs) ==
    IF rs = <<>> THEN 0 ELSE Head(rs).time_taken + SumTime(Tail(rs))

\* round(100 * correct / total, 2), in hundredths (no quotient below is a
\* rounding tie: total stays far below 32)
Percent(correct, total) == (2 * 10000 * correct + total) \div (2 * total)

\* calculate_final_level, lines 336-343
level_scores(rs) ==
    [level \in Levels |->
        [correct |-> Len(CorrectOnes(AtLevel(rs, level))),
         total |-> Len(AtLevel(rs, level))]]

\* Satisfactory without the minimum of two responses at the level
Satisfactory_single(score) ==
    /\ score.total >= 1
    /\ 10 * score.correct >= 6 * score.total

\* calculate_final_level, lines 353-355: accuracy = correct / total >= 0.6
Satisfactory(score) ==
    /\ score.total >= 2
    /\ 10 * score.correct >= 6 * score.total

\* calculate_final_level falling back to the engine's current level instead
\* of A1
calculate_final_level_from_current_level(e) ==
    LET scores == level_scores(e.responses)
        good == {i \in 0..(Len(CEFR_LEVELS_ORDER) - 1) :
                    Satisfactory(scores[LevelAt(i)])}
        top == CHOOSE i \in good : \A j \in good : j <= i
        total_correct == Len(CorrectOnes(e.responses))
    IN  [detected_level |-> IF good # {} THEN LevelAt(top) ELSE e.current_level,
         confidence_score |->
            IF good # {}
            THEN Percent(scores[LevelAt(top)].correct, scores[LevelAt(top)].total)
            ELSE 5000,
         questions_answered |-> Len(e.responses),
         correct_answers |-> total_correct,
         total_time_seconds |-> SumTime(e.responses),
         accuracy_percentage |->
            IF e.responses # <<>>
            THEN Percent(total_correct, Len(e.responses)) ELSE 0,
         level_breakdown |-> scores]

\* calculate_final_level
calculate_final_level(e) ==
    LET scores == level_scores(e.responses)
        good == {i \in 0..(Len(CEFR_LEVELS_ORDER) - 1) :
                    Satisfactory(scores[LevelAt(i)])}
        top == CHOOSE i \in good : \A j \in good : j <= i
        total_correct == Len(CorrectOnes(e.responses))
    IN  [detected_level |-> IF good # {} THEN LevelAt(top) ELSE "A1",
         confidence_score |->
            IF good # {}
            THEN Percent(scores[LevelAt(top)].correct, scores[LevelAt(top)].total)
            ELSE 5000,
         questions_answered |-> Len(e.responses),
         correct_answers |-> total_correct,
         total_time_seconds |-> SumTime(e.responses),
         accuracy_percentage |->
            IF e.responses # <<>>
            THEN Percent(total_correct, Len(e.responses)) ELSE 0,
         level_breakdown |-> scores]

(* ------------------------------ state --------------------------------- *)

VARIABLES
    sessions,    \* student_assessment_sessions: id -> row
    responses,   \* student_assessment_responses, in insertion order
    questions,   \* adaptive_assessment_questions: id -> row
    clock,       \* the last value datetime.now() returned
    req,         \* slot -> the request it serves and where that request is
    selections,  \* session id -> the selections made for it (history)
    overlaps,    \* requests admitted so far while another was in flight
    engine,      \* the AdaptiveEngine object of SpecEngine
    metrics,     \* question_validation_metrics, in insertion order
    returned,    \* what the last call of a function under analysis returned
    import_history,             \* question_import_history: id -> row
    import_errors,              \* question_import_errors, in insertion order
    reclassification_history,   \* question_reclassification_history
    import_run,                 \* the bulk import in progress, if any
    calibration_reports         \* calibration_reports, in insertion order

vars == <<sessions, responses, questions, clock, req, selections, overlaps,
          engine, metrics, returned, import_history, import_errors,
          reclassification_history, import_run, calibration_reports>>

\* the tables only the import, the reclassification and the calibration
\* report write, and the import in progress
logs == <<import_history, import_errors, reclassification_history,
          import_run, calibration_reports>>

\* no bulk import is in progress; failures counts the store failures so far
NoImport ==
    [pc |-> "idle", df |-> <<>>, idx |-> 0, import_id |-> 0,
     successful |-> 0, failed |-> 0, errors |-> <<>>, imported_ids |-> <<>>,
     failures |-> 0]

\* nothing was returned yet
NoReturn == [kind |-> "none"]

Slots == 1..MaxRequests

NoDifference == 99

NoReply ==
    [status |-> 0, session_id |-> 0, question |-> NoQuestion,
     is_correct |-> FALSE, current_level |-> NULL, questions_remaining |-> 0,
     is_complete |-> FALSE, detected_level |-> NULL,
     confidence_score |-> NoScore]

IdleReq ==
    [pc |-> "idle", op |-> "none", student_id |-> 0, session_id |-> 0,
     question |-> NoQuestionObj, engine |-> NewEngine(0),
     is_correct |-> FALSE, time_taken |-> 0, reply |-> NoReply]

\* a request that ended: only what it answered is kept
Done(op, reply) == [IdleReq EXCEPT !.pc = "done", !.op = op, !.reply = reply]

\* raise HTTPException(status_code = status)
Error(status) == [NoReply EXCEPT !.status = status]

Init ==
    /\ sessions = <<>>
    /\ responses = <<>>
    /\ questions = InitBank
    /\ clock = 0
    /\ req = [r \in Slots |-> IdleReq]
    /\ selections = <<>>
    /\ overlaps = 0
    /\ engine = NewEngine(1)
    /\ metrics = <<>>
    /\ returned = NoReturn
    /\ import_history = <<>>
    /\ import_errors = <<>>
    /\ reclassification_history = <<>>
    /\ import_run = NoImport
    /\ calibration_reports = <<>>

(* ------------------------------ queries ------------------------------- *)

\* SELECT ... WHERE student_id = %s AND completed_at IS NULL
OpenSessionsOf(student_id) ==
    {s \in DOMAIN sessions : /\ sessions[s].student_id = student_id
                             /\ sessions[s].completed_at = NoTime}

RowsOf(session_id) == SelectSeq(responses, LAMBDA x : x.session_id = session_id)

\* insertion into a list sorted by question_sequence, after the rows that
\* are not larger
RECURSIVE InsertBySequence(_, _)
InsertBySequence(sorted, row) ==
    IF sorted = <<>> THEN <<row>>
    ELSE IF Head(sorted).question_sequence <= row.question_sequence
    THEN <<Head(sorted)>> \o InsertBySequence(Tail(sorted), row)
    ELSE <<row>> \o sorted

\* insertion sort; the sorted prefix is bound as a value, so that it is
\* computed once for each row inserted
RECURSIVE OrderBySequence(_)
OrderBySequence(rows) ==
    IF rows = <<>> THEN <<>>
    ELSE CHOOSE out \in
            {InsertBySequence(sorted, rows[Len(rows)]) :
                sorted \in {OrderBySequence(SubSeq(rows, 1, Len(rows) - 1))}} :
            TRUE

\* SELECT ... FROM student_assessment_responses WHERE session_id = %s
\* ORDER BY question_sequence
previous_responses(session_id) == OrderBySequence(RowsOf(session_id))

\* submit_answer, lines 511-521: the engine rebuilt from the stored rows
RECURSIVE Rebuild(_, _)
Rebuild(e, rows) ==
    IF rows = <<>> THEN e
    ELSE Rebuild([e EXCEPT !.responses = Append(@,
                        [question_id |-> Head(rows).question_id,
                         level |-> Head(rows).difficulty_at_question,
                         skill |-> "grammar",
                         is_correct |-> Head(rows).is_correct,
                         time_taken |-> Head(rows).time_taken_seconds,
                         student_answer |-> <<>>]),
                     !.questions_asked = @ + 1],
                 Tail(rows))

\* datetime.now()
Now == clock + 1

\* the entry a selection leaves in the history of its session
Selection(out, bank) ==
    [warmup |-> out.warmup, level |-> out.level, skill |-> out.skill,
     question_id |-> out.question,
     question_level |-> bank[out.question].difficulty_level,
     question_skill |-> bank[out.question].skill_focus]

(* --------------------------- request inputs --------------------------- *)

\* session ids a request may name: the stored ones and one that is unknown
SessionInputs == 1..(Len(sessions) + 1)

\* whether the next answer of a session still draws from the wide input sets
FreeInputs(session_id) == Len(RowsOf(session_id)) < MaxFreeAnswers

\* question ids a submit request may name: the question posed last and an
\* unknown id; any id of the bank while the inputs are wide or nothing was
\* posed
QuestionInputs(session_id) ==
    IF session_id \notin DOMAIN selections THEN {}
    ELSE IF FreeInputs(session_id) \/ selections[session_id] = <<>>
    THEN 1..(Len(questions) + 1)
    ELSE {selections[session_id][Len(selections[session_id])].question_id,
          Len(questions) + 1}

WrongRowsOf(session_id) ==
    SelectSeq(RowsOf(session_id), LAMBDA x : ~x.is_correct)

\* answers as typed: one the bank grades correct whatever the question, and,
\* while the session holds fewer than MaxWrongAnswers incorrect rows, one it
\* grades incorrect; with wide inputs also a padded upper-case one and a
\* blank one
RawAnswerInputs(session_id) ==
    {<<"a">>}
      \cup (IF Len(WrongRowsOf(session_id)) < MaxWrongAnswers
            THEN {<<"b">>} ELSE {})
      \cup (IF FreeInputs(session_id) THEN {<<"A", " ">>, <<" ">>} ELSE {})

\* SubmitAnswerRequest.validate_answer: blank answers are refused before the
\* handler runs, the others reach it stripped
validate_answer(session_id) ==
    {Strip(v) : v \in {a \in RawAnswerInputs(session_id) : Strip(a) # <<>>}}

\* time_taken_seconds, Field(ge = 0)
TimeInputs(session_id) == IF FreeInputs(session_id) THEN {0, 4} ELSE {4}

(* ------------------------------ arrival ------------------------------- *)

\* the slots whose request still has statements to run
Busy == {q \in Slots : req[q].pc \notin {"idle", "done"}}

\* a request arrives at a free slot; one that gets past its first statement
\* while another request is in flight counts as an overlap
Admit(proceeds) ==
    /\ (proceeds /\ Busy # {}) => overlaps < MaxOverlaps
    /\ overlaps' = IF proceeds /\ Busy # {} THEN overlaps + 1 ELSE overlaps

(* -------------------------- start_assessment -------------------------- *)

StartsInFlight == {q \in Slots : req[q].pc \in {"start_1", "start_2"}}

\* lines 395-403; cap bounds the rows of the session table
StartCheckStudent(r, student_id, cap) ==
    /\ req[r].pc = "idle"
    /\ student_id \in Users => Len(sessions) + Cardinality(StartsInFlight) < cap
    /\ req' = [req EXCEPT ![r] =
                IF student_id \notin Users
                THEN Done("start", Error(404))
                ELSE [IdleReq EXCEPT !.pc = "start_1", !.op = "start",
                                     !.student_id = student_id]]
    /\ Admit(student_id \in Users)
    /\ UNCHANGED <<sessions, responses, questions, clock, selections, engine,
                 metrics, returned, logs>>

\* lines 405-420
StartCheckExisting(r) ==
    /\ req[r].pc = "start_1"
    /\ req' = [req EXCEPT ![r] =
                IF OpenSessionsOf(req[r].student_id) # {}
                THEN Done("start", Error(400))
                ELSE [@ EXCEPT !.pc = "start_2"]]
    /\ UNCHANGED <<sessions, responses, questions, clock, selections, overlaps,
                   engine,
                 metrics, returned, logs>>

\* lines 422-434
StartInsert(r) ==
    /\ req[r].pc = "start_2"
    /\ \E self_reported_level \in SelfReportedInputs :
          sessions' = Append(sessions,
              [student_id |-> req[r].student_id,
               started_at |-> Now,
               self_reported_level |-> self_reported_level,
               completed_at |-> NoTime,
               final_detected_level |-> NULL,
               confidence_score |-> NoScore,
               questions_answered |-> 0,
               correct_answers |-> 0,
               total_time_seconds |-> 0,
               level_difference |-> NoDifference])
    /\ clock' = Now
    /\ selections' = Append(selections, <<>>)
    /\ req' = [req EXCEPT ![r].pc = "start_3",
                          ![r].session_id = Len(sessions) + 1]
    /\ UNCHANGED <<responses, questions, overlaps, engine,
                 metrics, returned, logs>>

\* lines 436-447
StartFirstQuestion(r) ==
    /\ req[r].pc = "start_3"
    /\ \E out \in get_next_question(NewEngine(req[r].session_id), questions) :
          IF out.question = NoQuestion
          THEN /\ req' = [req EXCEPT ![r] = Done("start", Error(500))]
               /\ UNCHANGED selections
          ELSE /\ req' = [req EXCEPT ![r] = Done("start",
                            [NoReply EXCEPT !.status = 200,
                                            !.session_id = req[r].session_id,
                                            !.question = out.question])]
               /\ selections' = [selections EXCEPT ![req[r].session_id] =
                                    Append(@, Selection(out, questions))]
    /\ UNCHANGED <<sessions, responses, questions, clock, overlaps, engine,
                 metrics, returned, logs>>

(* ---------------------------- submit_answer --------------------------- *)

\* lines 459-475
SubmitReadSession(r, session_id) ==
    /\ req[r].pc = "idle"
    /\ req' = [req EXCEPT ![r] =
                IF session_id \notin DOMAIN sessions
                THEN Done("submit", Error(404))
                ELSE IF sessions[session_id].completed_at # NoTime
                THEN Done("submit", Error(400))
                ELSE [IdleReq EXCEPT !.pc = "submit_1", !.op = "submit",
                                     !.session_id = session_id]]
    /\ Admit(/\ session_id \in DOMAIN sessions
             /\ sessions[session_id].completed_at = NoTime)
    /\ UNCHANGED <<sessions, responses, questions, clock, selections, engine,
                 metrics, returned, logs>>

\* lines 477-494
SubmitReadQuestion(r, question_id) ==
    /\ req[r].pc = "submit_1"
    /\ req' = [req EXCEPT ![r] =
                IF question_id \notin DOMAIN questions
                THEN Done("submit", Error(404))
                ELSE [@ EXCEPT !.pc = "submit_2",
                               !.question = QuestionOf(questions, question_id)]]
    /\ UNCHANGED <<sessions, responses, questions, clock, selections, overlaps,
                   engine,
                 metrics, returned, logs>>

\* lines 496-521
SubmitLoadResponses(r) ==
    /\ req[r].pc = "submit_2"
    /\ req' = [req EXCEPT ![r].pc = "submit_3",
                          ![r].engine = Rebuild(NewEngine(req[r].session_id),
                                          previous_responses(req[r].session_id))]
    /\ UNCHANGED <<sessions, responses, questions, clock, selections, overlaps,
                   engine,
                 metrics, returned, logs>>

\* lines 523-524
SubmitRecordResponse(r, student_answer, time_taken) ==
    /\ req[r].pc = "submit_3"
    /\ LET rec == record_response(req[r].engine, req[r].question,
                                  student_answer, time_taken)
       IN  /\ responses' = Append(responses, rec.row)
           /\ req' = [req EXCEPT ![r].pc = "submit_4",
                                 ![r].engine = rec.engine,
                                 ![r].is_correct = rec.is_correct,
                                 ![r].time_taken = time_taken]
    /\ UNCHANGED <<sessions, questions, clock, selections, overlaps,
                   engine,
                 metrics, returned, logs>>

\* lines 526-539
SubmitUpdateStats(r) ==
    /\ req[r].pc = "submit_4"
    /\ sessions' = [sessions EXCEPT
            ![req[r].session_id].questions_answered = @ + 1,
            ![req[r].session_id].correct_answers =
                @ + (IF req[r].is_correct THEN 1 ELSE 0),
            ![req[r].session_id].total_time_seconds = @ + req[r].time_taken]
    /\ req' = [req EXCEPT ![r].pc =
                IF req[r].engine.questions_asked >= max_questions
                THEN "submit_5" ELSE "submit_7"]
    /\ UNCHANGED <<responses, questions, clock, selections, overlaps,
                   engine,
                 metrics, returned, logs>>

\* lines 541-556
SubmitFinalize(r) ==
    /\ req[r].pc = "submit_5"
    /\ LET final_results == calculate_final_level(req[r].engine)
       IN  sessions' = [sessions EXCEPT
              ![req[r].session_id].completed_at = Now,
              ![req[r].session_id].final_detected_level =
                  final_results.detected_level,
              ![req[r].session_id].confidence_score =
                  final_results.confidence_score]
    /\ clock' = Now
    /\ req' = [req EXCEPT ![r].pc = "submit_6"]
    /\ UNCHANGED <<responses, questions, selections, overlaps,
                   engine,
                 metrics, returned, logs>>

\* lines 558-585
SubmitLevelDifference(r) ==
    /\ req[r].pc = "submit_6"
    /\ LET final_results == calculate_final_level(req[r].engine)
           self_reported_level ==
               sessions[req[r].session_id].self_reported_level
       IN  /\ sessions' =
                 IF self_reported_level # NULL
                 THEN [sessions EXCEPT ![req[r].session_id].level_difference =
                          get_level_index(self_reported_level)
                            - get_level_index(final_results.detected_level)]
                 ELSE sessions
           /\ req' = [req EXCEPT ![r] = Done("submit",
                        [NoReply EXCEPT
                            !.status = 200,
                            !.session_id = req[r].session_id,
                            !.is_correct = req[r].is_correct,
                            !.current_level = req[r].engine.current_level,
                            !.questions_remaining = 0,
                            !.is_complete = TRUE,
                            !.detected_level = final_results.detected_level,
                            !.confidence_score =
                                final_results.confidence_score])]
    /\ UNCHANGED <<responses, questions, clock, selections, overlaps,
                   engine,
                 metrics, returned, logs>>

\* lines 587-602
SubmitNextQuestion(r) ==
    /\ req[r].pc = "submit_7"
    /\ \E out \in get_next_question(req[r].engine, questions) :
          IF out.question = NoQuestion
          THEN /\ req' = [req EXCEPT ![r] = Done("submit", Error(500))]
               /\ UNCHANGED selections
          ELSE /\ req' = [req EXCEPT ![r] = Done("submit",
                            [NoReply EXCEPT
                                !.status = 200,
                                !.session_id = req[r].session_id,
                                !.is_correct = req[r].is_correct,
                                !.question = out.question,
                                !.current_level = out.engine.current_level,
                                !.questions_remaining =
                                    max_questions - out.engine.questions_asked,
                                !.is_complete = FALSE])]
               /\ selections' = [selections EXCEPT ![req[r].session_id] =
                                    Append(@, Selection(out, questions))]
    /\ UNCHANGED <<sessions, responses, questions, clock, overlaps, engine,
                 metrics, returned, logs>>

(* -------------------------- cancel_assessment ------------------------- *)

\* lines 700-710
CancelRead(r, session_id) ==
    /\ req[r].pc = "idle"
    /\ req' = [req EXCEPT ![r] =
                IF session_id \notin DOMAIN sessions
                THEN Done("cancel", Error(404))
                ELSE IF sessions[session_id].completed_at # NoTime
                THEN Done("cancel", Error(400))
                ELSE [IdleReq EXCEPT !.pc = "cancel_1", !.op = "cancel",
                                     !.session_id = session_id]]
    /\ Admit(/\ session_id \in DOMAIN sessions
             /\ sessions[session_id].completed_at = NoTime)
    /\ UNCHANGED <<sessions, responses, questions, clock, selections, engine,
                 metrics, returned, logs>>

\* lines 712-718
CancelUpdate(r) ==
    /\ req[r].pc = "cancel_1"
    /\ sessions' = [sessions EXCEPT ![req[r].session_id].completed_at = Now]
    /\ clock' = Now
    /\ req' = [req EXCEPT ![r] = Done("cancel",
                 [NoReply EXCEPT !.status = 200,
                                 !.session_id = req[r].session_id])]
    /\ UNCHANGED <<responses, questions, selections, overlaps,
                   engine,
                 metrics, returned, logs>>

\* the reply leaves; the slot serves the next request
Return(r) ==
    /\ req[r].pc = "done"
    /\ req' = [req EXCEPT ![r] = IdleReq]
    /\ UNCHANGED <<sessions, responses, questions, clock, selections, overlaps,
                   engine,
                 metrics, returned, logs>>

(* --------------------------- specifications --------------------------- *)

Submit(r) ==
    \/ \E session_id \in SessionInputs : SubmitReadSession(r, session_id)
    \/ \E question_id \in QuestionInputs(req[r].session_id) :
          SubmitReadQuestion(r, question_id)
    \/ SubmitLoadResponses(r)
    \/ \E student_answer \in validate_answer(req[r].session_id),
          time_taken \in TimeInputs(req[r].session_id) :
          SubmitRecordResponse(r, student_answer, time_taken)
    \/ SubmitUpdateStats(r)
    \/ SubmitFinalize(r)
    \/ SubmitLevelDifference(r)
    \/ SubmitNextQuestion(r)

Start(r, cap) ==
    \/ \E student_id \in StudentInputs : StartCheckStudent(r, student_id, cap)
    \/ StartCheckExisting(r)
    \/ StartInsert(r)
    \/ StartFirstQuestion(r)

Cancel(r) ==
    \/ \E session_id \in SessionInputs : CancelRead(r, session_id)
    \/ CancelUpdate(r)

\* the assessment API serving concurrent requests
Next ==
    \E r \in Slots :
        \/ Start(r, MaxSessions)
        \/ Submit(r)
        \/ Cancel(r)
        \/ Return(r)

Spec == Init /\ [][Next]_vars

\* the same API with its requests served one at a time
NextSeq ==
    \/ Start(1, MaxSessions)
    \/ Submit(1)
    \/ Cancel(1)
    \/ Return(1)

SpecSeq == Init /\ [][NextSeq]_vars

\* sessions being opened and cancelled, with no answers submitted
NextStart ==
    \E r \in Slots :
        \/ Start(r, MaxStartSessions)
        \/ Cancel(r)
        \/ Return(r)

SpecStart == Init /\ [][NextStart]_vars

(* ------------------- one AdaptiveEngine held in memory ----------------- *)

\* engine.get_next_question()
EngineGetNextQuestion ==
    /\ \E out \in get_next_question(engine, questions) : engine' = out.engine
    /\ UNCHANGED <<sessions, responses, questions, clock, req, selections,
                   overlaps,
                 metrics, returned, logs>>

\* engine.record_response(question, student_answer, time_taken)
EngineRecordResponse(question_id, student_answer, time_taken) ==
    /\ Len(engine.responses) < MaxEngineResponses
    /\ LET rec == record_response(engine, QuestionOf(questions, question_id),
                                  student_answer, time_taken)
       IN  /\ engine' = rec.engine
           /\ responses' = Append(responses, rec.row)
    /\ UNCHANGED <<sessions, questions, clock, req, selections, overlaps,
                 metrics, returned, logs>>

NextEngine ==
    \/ EngineGetNextQuestion
    \/ \E question_id \in DOMAIN questions, student_answer \in {<<"a">>, <<"b">>} :
          EngineRecordResponse(question_id, student_answer, 4)

SpecEngine == Init /\ [][NextEngine]_vars

(* ------------------------------ claims -------------------------------- *)

\* a request that has answered, and what it answered
Replied(r, op, status) ==
    /\ req[r].pc = "done"
    /\ req[r].op = op
    /\ req[r].reply.status = status

\* C1: the question_sequence numbers of the stored responses of one session
\* are pairwise distinct, whatever the interleaving of the submit_answer
\* requests.
C1_DistinctSequence ==
    \A i, j \in DOMAIN responses :
        (i # j /\ responses[i].session_id = responses[j].session_id)
            => responses[i].question_sequence # responses[j].question_sequence

\* C2: no session holds more than 10 responses; a session has a final level
\* only with all 10 recorded; and once the request that recorded the 10th has
\* run its statements the session is complete.
C2_CompleteAtTenth ==
    \A s \in DOMAIN sessions :
        /\ Len(RowsOf(s)) <= max_questions
        /\ sessions[s].final_detected_level # NULL
               => Len(RowsOf(s)) = max_questions
        /\ (Len(RowsOf(s)) = max_questions /\ Busy = {})
               => sessions[s].completed_at # NoTime

\* the engine one AdaptiveEngine held in memory is left with by the
\* selections and recorded responses that produced the rows
RECURSIVE InMemoryEngine(_, _)
InMemoryEngine(session_id, rows) ==
    IF rows = <<>> THEN NewEngine(session_id)
    ELSE LET before == InMemoryEngine(session_id, SubSeq(rows, 1, Len(rows) - 1))
             posed == (CHOOSE out \in get_next_question(before, questions) : TRUE).engine
             row == rows[Len(rows)]
         IN  [posed EXCEPT !.responses = Append(@,
                 [question_id |-> row.question_id,
                  level |-> row.difficulty_at_question,
                  skill |-> "grammar",
                  is_correct |-> row.is_correct,
                  time_taken |-> row.time_taken_seconds,
                  student_answer |-> <<>>])]

\* C3: the engine a submit_answer rebuilds has the questions_asked,
\* current_level and skill cursor of an in-memory engine that made the same
\* selections and recorded the same responses, and the current_level a reply
\* reports is B1 moved one clamped step per recorded response.
C3_RebuildIsReplay ==
    \A r \in Slots :
        /\ req[r].pc = "submit_3" =>
              LET m == InMemoryEngine(req[r].session_id,
                                      previous_responses(req[r].session_id))
              IN  /\ req[r].engine.questions_asked = m.questions_asked
                  /\ req[r].engine.current_level = m.current_level
                  /\ req[r].engine.skill_index = m.skill_index
        /\ Replied(r, "submit", 200) =>
              req[r].reply.current_level =
                  AdjustedLevel(InMemoryEngine(req[r].reply.session_id,
                                  previous_responses(req[r].reply.session_id)))

\* one step of the in-memory engine, as C4 describes it
SingleStep ==
    LET i == get_level_index(engine.current_level)
        j == get_level_index(engine'.current_level)
        top == Len(CEFR_LEVELS_ORDER) - 1
    IN  /\ engine'.current_level \in Levels
        /\ j - i \in {0 - 1, 0, 1}
        /\ ( /\ engine'.questions_asked = engine.questions_asked + 1
             /\ engine.questions_asked > 0
             /\ engine.responses # <<>> )
           => IF engine.responses[Len(engine.responses)].is_correct
              THEN j = IF i = top THEN top ELSE i + 1
              ELSE j = IF i = 0 THEN 0 ELSE i - 1

\* C4: current_level is always one of the six tiers; a selection after the
\* warm-up moves it exactly one tier, up after a correct last response and
\* down after an incorrect one, except that it stays at C2 and at A1; no step
\* moves it more than one tier.
C4_SingleStep == [][SingleStep]_vars

\* C4, witness: the engine has climbed to C2 and a later selection left it
\* there
C4_Witness ==
    /\ engine.current_level = "C2"
    /\ engine.questions_asked >= 5
    /\ engine.responses # <<>>
    /\ engine.responses[Len(engine.responses)].is_correct

\* the selections of a session that were not made by the warm-up rule
Adaptive(session_id) ==
    SelectSeq(selections[session_id], LAMBDA x : ~x.warmup)

\* the skill after a skill in SKILL_TYPES_ORDER, cyclically
SkillAfter(skill) ==
    LET k == CHOOSE i \in 1..Len(SKILL_TYPES_ORDER) : SKILL_TYPES_ORDER[i] = skill
    IN  SKILL_TYPES_ORDER[(k % Len(SKILL_TYPES_ORDER)) + 1]

\* C5: any 4 consecutive selections after the warm-up ask for the four
\* skills, each once, in the cyclic order of SKILL_TYPES_ORDER.
C5_SkillRotation ==
    \A s \in DOMAIN selections :
        \A i \in 1..(Len(Adaptive(s)) - 3) :
            /\ {Adaptive(s)[k].skill : k \in i..(i + 3)} = Skills
            /\ \A k \in i..(i + 2) :
                  Adaptive(s)[k + 1].skill = SkillAfter(Adaptive(s)[k].skill)

\* C6: the first question of a session is a B1 grammar question, chosen by
\* the warm-up rule, and no later selection of the session is made by the
\* warm-up rule.
C6_WarmupOnce ==
    /\ \A r \in Slots : Replied(r, "start", 200) =>
          /\ questions[req[r].reply.question].difficulty_level = "B1"
          /\ questions[req[r].reply.question].skill_focus = "grammar"
    /\ \A s \in DOMAIN selections : \A i \in DOMAIN selections[s] :
          IF i = 1
          THEN /\ selections[s][i].warmup
               /\ selections[s][i].question_level = "B1"
               /\ selections[s][i].question_skill = "grammar"
          ELSE ~selections[s][i].warmup

\* the counters submit_answer keeps on a session row
Counters(row) ==
    <<row.questions_answered, row.correct_answers, row.total_time_seconds>>

\* C7: once completed_at of a session is set, its response log and its
\* counters never change again.
C7_ClosedStaysClosed ==
    [][\A s \in DOMAIN sessions :
          sessions[s].completed_at # NoTime
              => /\ SelectSeq(responses', LAMBDA x : x.session_id = s) = RowsOf(s)
                 /\ Counters(sessions'[s]) = Counters(sessions[s])]_vars

\* C8: a test-taker never has two sessions with completed_at unset.
C8_OneOpenSession ==
    \A student_id \in StudentInputs :
        Cardinality(OpenSessionsOf(student_id)) <= 1

\* C9: a session is finalized at most once: the statement that writes
\* completed_at, final_detected_level and confidence_score only ever runs on
\* a session that has not been finalized.
C9_FinalizedOnce ==
    [][\A r \in Slots :
          (req[r].pc = "submit_5" /\ req'[r].pc = "submit_6")
              => sessions[req[r].session_id].final_detected_level = NULL]_vars

\* C10: a session whose cancel_assessment reported success is closed and has
\* neither a detected level nor a confidence score.
C10_CancelledHasNoLevel ==
    \A r \in Slots : Replied(r, "cancel", 200) =>
        /\ sessions[req[r].reply.session_id].completed_at # NoTime
        /\ sessions[req[r].reply.session_id].final_detected_level = NULL
        /\ sessions[req[r].reply.session_id].confidence_score = NoScore

(* -------------- calculate_final_level on any response history ---------- *)

MaxHistory == 5

\* the levels the responses of a drawn history were recorded at
HistoryLevels == {"A1", "B1", "C2"}

\* a response as record_response appends it to engine.responses
HistoryResponse(level, is_correct) ==
    [question_id |-> 1, level |-> level, skill |-> "grammar",
     is_correct |-> is_correct, time_taken |-> 4, student_answer |-> <<"a">>]

\* the values engine.responses can have, up to n responses
RECURSIVE Histories(_)
Histories(n) ==
    IF n = 0 THEN {<<>>}
    ELSE LET shorter == Histories(n - 1)
         IN  shorter \cup
             {Append(h, HistoryResponse(level, is_correct)) :
                h \in {x \in shorter : Len(x) = n - 1},
                level \in HistoryLevels, is_correct \in BOOLEAN}

InitResolver ==
    /\ sessions = <<>>
    /\ responses = <<>>
    /\ questions = InitBank
    /\ clock = 0
    /\ req = [r \in Slots |-> IdleReq]
    /\ selections = <<>>
    /\ overlaps = 0
    /\ engine \in {[NewEngine(1) EXCEPT !.responses = h] :
                      h \in Histories(MaxHistory)}
    /\ metrics = <<>>
    /\ returned = NoReturn
    /\ import_history = <<>>
    /\ import_errors = <<>>
    /\ reclassification_history = <<>>
    /\ import_run = NoImport
    /\ calibration_reports = <<>>

\* final_result = engine.calculate_final_level()
Resolve ==
    /\ returned' = [kind |-> "final_level",
                    result |-> calculate_final_level(engine)]
    /\ UNCHANGED <<sessions, responses, questions, clock, req, selections,
                   overlaps, engine, metrics, logs>>

NextResolver == Resolve

SpecResolver == InitResolver /\ [][NextResolver]_vars

\* the responses of the engine recorded at a level, and the correct ones
AttemptsAt(level) ==
    Cardinality({i \in DOMAIN engine.responses :
                    engine.responses[i].level = level})

CorrectAt(level) ==
    Cardinality({i \in DOMAIN engine.responses :
                    /\ engine.responses[i].level = level
                    /\ engine.responses[i].is_correct})

Qualifies(level) ==
    /\ AttemptsAt(level) >= 2
    /\ 10 * CorrectAt(level) >= 6 * AttemptsAt(level)

\* C11: calculate_final_level returns the highest level that has at least two
\* responses recorded at it with correct/total >= 0.6, with that ratio x 100
\* (to two decimals) as confidence; when no level has both it returns A1 with
\* confidence 50.0, whatever the history and its length.
C11_HighestQualifying ==
    returned.kind = "final_level" =>
        LET res == returned.result
            lvl == res.detected_level
        IN  IF \E level \in Levels : Qualifies(level)
            THEN /\ Qualifies(lvl)
                 /\ \A level \in Levels :
                        Qualifies(level) =>
                            get_level_index(level) <= get_level_index(lvl)
                 /\ 2 * (res.confidence_score * AttemptsAt(lvl)
                            - 10000 * CorrectAt(lvl)) <= AttemptsAt(lvl)
                 /\ 2 * (10000 * CorrectAt(lvl)
                            - res.confidence_score * AttemptsAt(lvl))
                        <= AttemptsAt(lvl)
            ELSE /\ lvl = "A1"
                 /\ res.confidence_score = 5000

\* two levels qualify and the higher one, two correct of three, is returned
C11_Witness ==
    /\ returned.kind = "final_level"
    /\ Qualifies("A1")
    /\ AttemptsAt("C2") = 3
    /\ CorrectAt("C2") = 2
    /\ returned.result.detected_level = "C2"
    /\ returned.result.confidence_score = 6667

(* ------------------------- question selection ------------------------- *)

\* C12: no question is selected twice within one session: the selections of
\* a session are pairwise different questions, and a next_question differs
\* from every question the session has answered.
C12_NoRepeatedQuestion ==
    /\ \A s \in DOMAIN selections : \A i, j \in DOMAIN selections[s] :
          i < j => selections[s][i].question_id # selections[s][j].question_id
    /\ \A r \in Slots :
          (Replied(r, "submit", 200) /\ req[r].reply.question # NoQuestion) =>
              \A i \in DOMAIN responses :
                  responses[i].session_id = req[r].reply.session_id =>
                      responses[i].question_id # req[r].reply.question

MaxBank == 3

\* the rows a drawn bank is made of
BankLevels == {"A2", "B1"}

BankSkills == {"grammar", "vocabulary"}

BankRows ==
    {[difficulty_level |-> level, skill_focus |-> skill,
      correct_answer |-> <<"a">>] : level \in BankLevels, skill \in BankSkills}

\* the contents adaptive_assessment_questions can have, up to n rows
RECURSIVE Banks(_)
Banks(n) ==
    IF n = 0 THEN {<<>>}
    ELSE LET smaller == Banks(n - 1)
         IN  smaller \cup {Append(b, row) :
                              b \in {x \in smaller : Len(x) = n - 1},
                              row \in BankRows}

\* the levels a selection is asked for: B2 is held by no drawn bank
FetchLevels == BankLevels \cup {"B2"}

InitFetch ==
    /\ sessions = <<>>
    /\ responses = <<>>
    /\ questions \in Banks(MaxBank)
    /\ clock = 0
    /\ req = [r \in Slots |-> IdleReq]
    /\ selections = <<>>
    /\ overlaps = 0
    /\ engine = NewEngine(1)
    /\ metrics = <<>>
    /\ returned = NoReturn
    /\ import_history = <<>>
    /\ import_errors = <<>>
    /\ reclassification_history = <<>>
    /\ import_run = NoImport
    /\ calibration_reports = <<>>

\* question = self._fetch_question(level, skill)
Fetch(level, skill) ==
    /\ \E q \in fetch_question(questions, level, skill) :
          returned' = [kind |-> "fetch", level |-> level, skill |-> skill,
                       question |-> q]
    /\ UNCHANGED <<sessions, responses, questions, clock, req, selections,
                   overlaps, engine, metrics, logs>>

NextFetch == \E level \in FetchLevels, skill \in Skills : Fetch(level, skill)

SpecFetch == InitFetch /\ [][NextFetch]_vars

\* the questions of the bank at the level, and at the level with the skill,
\* that the last selection asked for
AtRequestedLevel ==
    {i \in DOMAIN questions : questions[i].difficulty_level = returned.level}

AtRequestedPair ==
    {i \in AtRequestedLevel : questions[i].skill_focus = returned.skill}

\* C13: selection for a (level, skill) pair returns a question of exactly
\* that level and skill whenever the bank holds one, otherwise a question of
\* that level with any skill when one exists, otherwise none; a returned
\* question never has a level other than the requested one.
C13_LevelAndSkillSelection ==
    returned.kind = "fetch" =>
        /\ AtRequestedPair # {} => returned.question \in AtRequestedPair
        /\ (AtRequestedPair = {} /\ AtRequestedLevel # {}) =>
              returned.question \in AtRequestedLevel
        /\ AtRequestedLevel = {} => returned.question = NoQuestion
        /\ returned.question # NoQuestion =>
              questions[returned.question].difficulty_level = returned.level

\* the fallback acted: the bank holds the level under other skills only, and
\* also questions of another level
C13_Witness ==
    /\ returned.kind = "fetch"
    /\ AtRequestedPair = {}
    /\ returned.question # NoQuestion
    /\ questions[returned.question].skill_focus # returned.skill
    /\ AtRequestedLevel # DOMAIN questions

(* -------------------------- item calibration -------------------------- *)

VALID_DIFFICULTY_LEVELS == <<"A1", "A2", "B1", "B2", "C1", "C2">>

\* VALID_DIFFICULTY_LEVELS.index(level)
DifficultyIndex(level) ==
    (CHOOSE i \in DOMAIN VALID_DIFFICULTY_LEVELS :
        VALID_DIFFICULTY_LEVELS[i] = level) - 1

\* VALID_DIFFICULTY_LEVELS[idx]
DifficultyAt(idx) == VALID_DIFFICULTY_LEVELS[idx + 1]

\* round(n / d) for n >= 0 and d > 0: a quotient halfway between two
\* integers goes to the even one, as Python's round does with a tie that a
\* float represents exactly
Round(n, d) ==
    LET q == n \div d
        r == n % d
    IN  IF 2 * r > d \/ (2 * r = d /\ q % 2 = 1) THEN q + 1 ELSE q

\* the join without its s.completed_at IS NOT NULL condition
completed_responses_any_session(sess, resp, question_id) ==
    SelectSeq(resp, LAMBDA r : /\ r.question_id = question_id
                               /\ r.session_id \in DOMAIN sess)

\* lines 266-277: the responses to a question joined to their sessions,
\* kept when the session has completed_at set
completed_responses(sess, resp, question_id) ==
    SelectSeq(resp, LAMBDA r : /\ r.question_id = question_id
                               /\ r.session_id \in DOMAIN sess
                               /\ sess[r.session_id].completed_at # NoTime)

\* the record of a never-attempted question, left unflagged
EmptyMetrics_unflagged(question_id, expected_level) ==
    [question_id |-> question_id, total_attempts |-> 0,
     correct_attempts |-> 0, accuracy_rate |-> 0, avg_time_seconds |-> 0,
     student_levels_attempted |-> <<>>, expected_level |-> expected_level,
     recommended_level |-> NULL, confidence_score |-> 0,
     needs_review |-> FALSE]

\* lines 279-290: the record of a question no completed session has answered
EmptyMetrics(question_id, expected_level) ==
    [question_id |-> question_id, total_attempts |-> 0,
     correct_attempts |-> 0, accuracy_rate |-> 0, avg_time_seconds |-> 0,
     student_levels_attempted |-> <<>>, expected_level |-> expected_level,
     recommended_level |-> NULL, confidence_score |-> 0,
     needs_review |-> TRUE]

RECURSIVE SumTimeTaken(_)
SumTimeTaken(rows) ==
    IF rows = <<>> THEN 0
    ELSE Head(rows).time_taken_seconds + SumTimeTaken(Tail(rows))

\* lines 304-313: correct and total per final_detected_level of the
\* test-taker; a row whose session has no level counts for none
level_accuracy(sess, rows) ==
    [level \in Levels |->
        LET of_level == SelectSeq(rows, LAMBDA r :
                sess[r.session_id].final_detected_level = level)
        IN  [correct |-> Len(SelectSeq(of_level, LAMBDA r : r.is_correct)),
             total |-> Len(of_level)]]

\* the keys of level_accuracy and of level_distribution
LevelsAttempted(stats) == {level \in Levels : stats[level].total > 0}

\* the weighted score of a level, taken as the accuracy whatever the level
weighted_score_unflipped(stats, level, expected_level_idx) ==
    [num |-> stats[level].correct, den |-> stats[level].total]

\* lines 320-327: the weighted score of a level as a fraction: the accuracy
\* of the level at or above the expected level, one minus it below
weighted_score(stats, level, expected_level_idx) ==
    IF DifficultyIndex(level) >= expected_level_idx
    THEN [num |-> stats[level].correct, den |-> stats[level].total]
    ELSE [num |-> stats[level].total - stats[level].correct,
          den |-> stats[level].total]

RECURSIVE ProductOfTotals(_, _)
ProductOfTotals(stats, levels) ==
    IF levels = {} THEN 1
    ELSE LET level == CHOOSE x \in levels : TRUE
         IN  stats[level].total * ProductOfTotals(stats, levels \ {level})

\* the sum of the weighted scores, as a numerator over denominator den
RECURSIVE SumOfScores(_, _, _, _)
SumOfScores(stats, levels, expected_level_idx, den) ==
    IF levels = {} THEN 0
    ELSE LET level == CHOOSE x \in levels : TRUE
             score == weighted_score(stats, level, expected_level_idx)
         IN  score.num * (den \div score.den)
             + SumOfScores(stats, levels \ {level}, expected_level_idx, den)

\* line 329 and round(confidence_score, 2): np.mean(weighted_scores) * 100,
\* in hundredths
confidence_score(stats, expected_level_idx) ==
    LET levels == LevelsAttempted(stats)
        den == ProductOfTotals(stats, levels)
    IN  IF levels = {} THEN 0
        ELSE Round(10000 * SumOfScores(stats, levels, expected_level_idx, den),
                   den * Cardinality(levels))

\* the too-easy rule with the accuracy threshold included
TooEasy_inclusive(correct, total) == 100 * correct >= 85 * total /\ total > 10

\* line 335: accuracy_rate > 85 and total_attempts > 10
TooEasy(correct, total) == 100 * correct > 85 * total /\ total > 10

\* line 340: accuracy_rate < 40 and total_attempts > 10
TooHard(correct, total) == 100 * correct < 40 * total /\ total > 10

\* lines 331-343: needs_review
needs_review_of(correct, total, expected_level_idx) ==
    IF TooEasy(correct, total) THEN expected_level_idx > 0
    ELSE TooHard(correct, total)

\* recommended_level stepping two tiers down for a too-easy item
recommended_level_skipping(correct, total, expected_level_idx) ==
    IF TooEasy(correct, total)
    THEN IF expected_level_idx > 1 THEN DifficultyAt(expected_level_idx - 2)
         ELSE IF expected_level_idx > 0 THEN DifficultyAt(0)
         ELSE NULL
    ELSE IF /\ TooHard(correct, total)
            /\ expected_level_idx < Len(VALID_DIFFICULTY_LEVELS) - 1
    THEN DifficultyAt(expected_level_idx + 1)
    ELSE NULL

\* lines 331-343: recommended_level, NULL for None
recommended_level_of(correct, total, expected_level_idx) ==
    IF TooEasy(correct, total)
    THEN IF expected_level_idx > 0 THEN DifficultyAt(expected_level_idx - 1)
         ELSE NULL
    ELSE IF /\ TooHard(correct, total)
            /\ expected_level_idx < Len(VALID_DIFFICULTY_LEVELS) - 1
    THEN DifficultyAt(expected_level_idx + 1)
    ELSE NULL

\* analyze_question_performance, lines 264-356: the metrics it computes for
\* a question of the bank from the session and response tables; rates,
\* times and scores are in hundredths
analyze_question_performance(sess, resp, bank, question_id) ==
    LET rows == completed_responses(sess, resp, question_id)
        expected_level == bank[question_id].difficulty_level
        expected_level_idx == DifficultyIndex(expected_level)
        total_attempts == Len(rows)
        correct_attempts == Len(SelectSeq(rows, LAMBDA r : r.is_correct))
        stats == level_accuracy(sess, rows)
    IN  IF rows = <<>> THEN EmptyMetrics(question_id, expected_level)
        ELSE [question_id |-> question_id,
              total_attempts |-> total_attempts,
              correct_attempts |-> correct_attempts,
              accuracy_rate |-> Round(10000 * correct_attempts, total_attempts),
              avg_time_seconds |->
                  Round(100 * SumTimeTaken(rows), total_attempts),
              student_levels_attempted |->
                  [level \in LevelsAttempted(stats) |-> stats[level].total],
              expected_level |-> expected_level,
              recommended_level |->
                  recommended_level_of(correct_attempts, total_attempts,
                                       expected_level_idx),
              confidence_score |-> confidence_score(stats, expected_level_idx),
              needs_review |->
                  needs_review_of(correct_attempts, total_attempts,
                                  expected_level_idx)]

\* the row INSERT writes: the metrics and the time of the statement
MetricsRow(m, now) ==
    [question_id |-> m.question_id,
     total_attempts |-> m.total_attempts,
     correct_attempts |-> m.correct_attempts,
     accuracy_rate |-> m.accuracy_rate,
     avg_time_seconds |-> m.avg_time_seconds,
     student_levels_attempted |-> m.student_levels_attempted,
     expected_level |-> m.expected_level,
     recommended_level |-> m.recommended_level,
     confidence_score |-> m.confidence_score,
     needs_review |-> m.needs_review,
     last_calculated_at |-> now]

\* an upsert that adds the new counts to the stored ones
save_question_metrics_accumulating(table, m, now) ==
    IF \E i \in DOMAIN table : table[i].question_id = m.question_id
    THEN [i \in DOMAIN table |->
            IF table[i].question_id = m.question_id
            THEN [MetricsRow(m, now) EXCEPT
                    !.expected_level = table[i].expected_level,
                    !.total_attempts = table[i].total_attempts + @,
                    !.correct_attempts = table[i].correct_attempts + @]
            ELSE table[i]]
    ELSE Append(table, MetricsRow(m, now))

\* save_question_metrics: INSERT ... ON DUPLICATE KEY UPDATE on the table
\* keyed by question_id; the update leaves expected_level as stored
save_question_metrics(table, m, now) ==
    IF \E i \in DOMAIN table : table[i].question_id = m.question_id
    THEN [i \in DOMAIN table |->
            IF table[i].question_id = m.question_id
            THEN [MetricsRow(m, now) EXCEPT
                    !.expected_level = table[i].expected_level]
            ELSE table[i]]
    ELSE Append(table, MetricsRow(m, now))

(* --------------------- the stores calibration reads -------------------- *)

MaxSessionAttempts == 10

MaxSecondWrong == 1

MaxSavedAttempts == 2

MaxCalibrationRuns == 2

\* the responses of one session to one question: first the correct ones,
\* then the wrong ones, as submit_answer inserts them
ResponseRows(session_id, question_id, level, correct, wrong) ==
    [i \in 1..(correct + wrong) |->
        [session_id |-> session_id,
         question_id |-> question_id,
         question_sequence |-> i,
         student_answer |-> IF i <= correct THEN <<"a">> ELSE <<"b">>,
         is_correct |-> i <= correct,
         time_taken_seconds |-> IF i <= correct THEN 4 ELSE 7,
         difficulty_at_question |-> level]]

\* a session row with the summary columns of its responses; completed_at
\* is NoTime for an open session, and the level is NULL for an open or a
\* cancelled one
SessionRow(started_at, completed_at, level, rows) ==
    [student_id |-> 1,
     started_at |-> started_at,
     self_reported_level |-> NULL,
     completed_at |-> completed_at,
     final_detected_level |-> level,
     confidence_score |-> IF level = NULL THEN NoScore ELSE 10000,
     questions_answered |-> Len(rows),
     correct_answers |-> Len(SelectSeq(rows, LAMBDA r : r.is_correct)),
     total_time_seconds |-> SumTimeTaken(rows),
     level_difference |-> NoDifference]

\* a store of two questions and four sessions: two completed with the levels
\* A2 and C1, one cancelled, one open. Question 1 has the drawn level and
\* the drawn numbers of responses; question 2 has one response.
StoreOf(level, c1, w1, c2, w2, cancelled, open) ==
    LET rows1 == ResponseRows(1, 1, level, c1, w1)
                    \o ResponseRows(1, 2, "B1", 1, 0)
        rows2 == ResponseRows(2, 1, level, c2, w2)
        rows3 == ResponseRows(3, 1, level, cancelled, 0)
        rows4 == ResponseRows(4, 1, level, open, 0)
    IN  [sessions |-> <<SessionRow(1, 2, "A2", rows1),
                        SessionRow(3, 4, "C1", rows2),
                        SessionRow(5, 6, NULL, rows3),
                        SessionRow(7, NoTime, NULL, rows4)>>,
         responses |-> rows1 \o rows2 \o rows3 \o rows4,
         questions |-> <<[difficulty_level |-> level,
                          skill_focus |-> "grammar",
                          correct_answer |-> <<"a">>],
                         [difficulty_level |-> "B1",
                          skill_focus |-> "grammar",
                          correct_answer |-> <<"a">>]>>]

\* the last time a session of the store was written
RECURSIVE LatestTime(_)
LatestTime(sess) ==
    IF sess = <<>> THEN 0
    ELSE LET later == LatestTime(Tail(sess))
             here == IF Head(sess).completed_at > Head(sess).started_at
                     THEN Head(sess).completed_at ELSE Head(sess).started_at
         IN  IF here > later THEN here ELSE later

\* the stores with at most cap responses to question 1 in each of the two
\* completed sessions, and at most one in the cancelled and the open one
InitStore(cap) ==
    /\ \E level \in Levels, c1 \in 0..cap, c2 \in 0..cap,
          cancelled \in 0..1, open \in 0..1 :
          \E w1 \in 0..(cap - c1) :
             \E w2 \in 0..(IF cap - c2 < MaxSecondWrong
                            THEN cap - c2 ELSE MaxSecondWrong) :
                LET store == StoreOf(level, c1, w1, c2, w2, cancelled, open)
                IN  /\ sessions = store.sessions
                    /\ responses = store.responses
                    /\ questions = store.questions
                    /\ clock = LatestTime(store.sessions)
    /\ req = [r \in Slots |-> IdleReq]
    /\ selections = <<>>
    /\ overlaps = 0
    /\ engine = NewEngine(1)
    /\ metrics = <<>>
    /\ returned = NoReturn
    /\ import_history = <<>>
    /\ import_errors = <<>>
    /\ reclassification_history = <<>>
    /\ import_run = NoImport
    /\ calibration_reports = <<>>

\* analyze_question_performance(question_id, save_to_db): both reads, the
\* computation and the upsert; no action of the calibration specifications
\* writes the tables it reads
Analyze(question_id, save_to_db) ==
    /\ save_to_db => clock < LatestTime(sessions) + MaxCalibrationRuns
    /\ IF question_id \notin DOMAIN questions
       THEN /\ returned' = [kind |-> "error", status |-> 404]
            /\ UNCHANGED <<metrics, clock, logs>>
       ELSE LET m == analyze_question_performance(sessions, responses,
                                                   questions, question_id)
            IN  /\ returned' = [kind |-> "metrics", metrics |-> m]
                /\ IF save_to_db
                   THEN /\ metrics' = save_question_metrics(metrics, m, Now)
                        /\ clock' = Now
                   ELSE UNCHANGED <<metrics, clock, logs>>
    /\ UNCHANGED <<sessions, responses, questions, req, selections, overlaps,
                   engine, logs>>

\* question ids a calibration call may name: the stored ones and one more
CalibrationInputs == 1..(Len(questions) + 1)

InitMetrics == InitStore(MaxSessionAttempts)

\* validate_single_question(question_id, save_to_db = False)
NextMetrics == \E question_id \in CalibrationInputs : Analyze(question_id, FALSE)

SpecMetrics == InitMetrics /\ [][NextMetrics]_vars

InitCalib == InitStore(MaxSavedAttempts)

\* validate_single_question(question_id, save_to_db)
NextCalib ==
    \E question_id \in CalibrationInputs, save_to_db \in BOOLEAN :
        Analyze(question_id, save_to_db)

SpecCalib == InitCalib /\ [][NextCalib]_vars

(* ------------------------ claims on calibration ------------------------ *)

\* the stored responses to a question whose session has completed_at set,
\* and those whose session is open
CompletedAttempts(question_id) ==
    {i \in DOMAIN responses :
        /\ responses[i].question_id = question_id
        /\ sessions[responses[i].session_id].completed_at # NoTime}

OpenAttempts(question_id) ==
    {i \in DOMAIN responses :
        /\ responses[i].question_id = question_id
        /\ sessions[responses[i].session_id].completed_at = NoTime}

\* C14: for a question with no response in any session whose completed_at is
\* set, analyze_question_performance yields metrics with zero attempt and
\* correct counts and needs_review = true, whatever open sessions hold.
C14_NeverAttemptedNeedsReview ==
    (/\ returned.kind = "metrics"
     /\ CompletedAttempts(returned.metrics.question_id) = {}) =>
        /\ returned.metrics.total_attempts = 0
        /\ returned.metrics.correct_attempts = 0
        /\ returned.metrics.needs_review

\* a question answered in an open session only was analysed
C14_Witness ==
    /\ returned.kind = "metrics"
    /\ CompletedAttempts(returned.metrics.question_id) = {}
    /\ OpenAttempts(returned.metrics.question_id) # {}
    /\ returned.metrics.total_attempts = 0
    /\ returned.metrics.needs_review

\* the response tables that differ from the stored one in responses of open
\* sessions only: those of open sessions removed, one more appended
OpenSessionIds == {s \in DOMAIN sessions : sessions[s].completed_at = NoTime}

OpenVariants(question_id) ==
    {SelectSeq(responses, LAMBDA r : r.session_id \notin OpenSessionIds)}
    \cup {responses \o ResponseRows(s, question_id, "B1", correct, 1 - correct) :
            s \in OpenSessionIds, correct \in 0..1}

\* C15: the metrics computed for a question depend only on the responses of
\* sessions whose completed_at is set: a store that differs from the present
\* one only in responses of open sessions gives the same metrics.
C15_OpenSessionsDoNotCount ==
    returned.kind = "metrics" =>
        \A other \in OpenVariants(returned.metrics.question_id) :
            analyze_question_performance(sessions, other, questions,
                returned.metrics.question_id) = returned.metrics

\* a question with attempts in completed sessions and in an open one
C15_Witness ==
    /\ returned.kind = "metrics"
    /\ OpenAttempts(returned.metrics.question_id) # {}
    /\ OpenVariants(returned.metrics.question_id) # {responses}
    /\ returned.metrics.total_attempts > 0

\* the counts of the metrics returned last
ReturnedTotal == returned.metrics.total_attempts

ReturnedCorrect == returned.metrics.correct_attempts

\* its accuracy is above, below or exactly a percentage
AccuracyAbove(percent) == 100 * ReturnedCorrect > percent * ReturnedTotal

AccuracyBelow(percent) == 100 * ReturnedCorrect < percent * ReturnedTotal

AccuracyExactly(percent) == 100 * ReturnedCorrect = percent * ReturnedTotal

\* C16: a question with more than 10 completed-session attempts is flagged
\* for review whenever its accuracy is above 85% and whenever it is below
\* 40%, at every expected level from A1 to C2, and is not flagged with an
\* accuracy from 40% to 85%.
C16_FlaggedOutsideBand ==
    (returned.kind = "metrics" /\ ReturnedTotal > 10) =>
        /\ (AccuracyAbove(85) \/ AccuracyBelow(40)) =>
              returned.metrics.needs_review
        /\ (~AccuracyAbove(85) /\ ~AccuracyBelow(40)) =>
              ~returned.metrics.needs_review

\* C17: the accuracy thresholds are strict: a question with at least one
\* attempt is never flagged with an accuracy of exactly 85% or exactly 40%,
\* and never with 10 or fewer attempts; a flag takes at least 11 attempts.
C17_StrictThresholds ==
    (returned.kind = "metrics" /\ ReturnedTotal >= 1) =>
        /\ (AccuracyExactly(85) \/ AccuracyExactly(40)) =>
              ~returned.metrics.needs_review
        /\ ReturnedTotal <= 10 => ~returned.metrics.needs_review
        /\ returned.metrics.needs_review => ReturnedTotal >= 11

\* 17 correct of 20 attempts on a question that is not of the lowest level
C17_Witness ==
    /\ returned.kind = "metrics"
    /\ ReturnedTotal = 20
    /\ AccuracyExactly(85)
    /\ returned.metrics.expected_level = "B1"
    /\ ~returned.metrics.needs_review

\* C18: recommended_level, when present, is exactly one tier away from the
\* expected level: the tier below for a too-easy item (accuracy > 85%), the
\* tier above for a too-hard one (accuracy < 40%); it is absent at the
\* boundary (A1 too easy, C2 too hard) and whenever the accuracy rules do
\* not flag the item.
C18_RecommendedOneTierAway ==
    returned.kind = "metrics" =>
        LET idx == DifficultyIndex(returned.metrics.expected_level)
            recommended == returned.metrics.recommended_level
            easy == ReturnedTotal > 10 /\ AccuracyAbove(85)
            hard == ReturnedTotal > 10 /\ AccuracyBelow(40)
        IN  /\ recommended # NULL =>
                  \/ DifficultyIndex(recommended) = idx - 1
                  \/ DifficultyIndex(recommended) = idx + 1
            /\ (easy /\ idx > 0) => recommended = DifficultyAt(idx - 1)
            /\ (hard /\ idx < 5) => recommended = DifficultyAt(idx + 1)
            /\ (easy /\ idx = 0) => recommended = NULL
            /\ (hard /\ idx = 5) => recommended = NULL
            /\ (~easy /\ ~hard) => recommended = NULL

\* a too-easy B2 question is recommended for B1
C18_Witness ==
    /\ returned.kind = "metrics"
    /\ ReturnedTotal > 10
    /\ AccuracyAbove(85)
    /\ returned.metrics.expected_level = "B2"
    /\ returned.metrics.recommended_level = "B1"

\* the completed-session attempts on the analysed question by test-takers of
\* a level, the correct ones among them, and the levels with an attempt
AttemptsOfLevel(level) ==
    {i \in CompletedAttempts(returned.metrics.question_id) :
        sessions[responses[i].session_id].final_detected_level = level}

CorrectOfLevel(level) == {i \in AttemptsOfLevel(level) : responses[i].is_correct}

TakerLevels == {level \in Levels : AttemptsOfLevel(level) # {}}

\* whether test-takers of a level are expected to answer the question
AtOrAboveExpected(level) ==
    get_level_index(level) >= get_level_index(returned.metrics.expected_level)

\* the sum over a set of levels of the subgroup accuracy (at or above the
\* expected level) or of one minus it (below), times the product of the
\* subgroup sizes of all levels with an attempt
RECURSIVE SubgroupProduct(_)
SubgroupProduct(levels) ==
    IF levels = {} THEN 1
    ELSE LET level == CHOOSE x \in levels : TRUE
         IN  Cardinality(AttemptsOfLevel(level))
                * SubgroupProduct(levels \ {level})

RECURSIVE SubgroupScores(_)
SubgroupScores(levels) ==
    IF levels = {} THEN 0
    ELSE LET level == CHOOSE x \in levels : TRUE
             total == Cardinality(AttemptsOfLevel(level))
             correct == Cardinality(CorrectOfLevel(level))
         IN  (IF AtOrAboveExpected(level) THEN correct ELSE total - correct)
                * SubgroupProduct(TakerLevels \ {level})
             + SubgroupScores(levels \ {level})

\* C19: the confidence score is 100 x the mean, over the test-taker levels
\* with at least one attempt on the item, of the subgroup accuracy when the
\* level is at or above the expected level and of one minus it when below
\* (to two decimals), and lies in [0, 100].
C19_ConfidenceIsSubgroupMean ==
    returned.kind = "metrics" =>
        LET score == returned.metrics.confidence_score
            den == SubgroupProduct(TakerLevels) * Cardinality(TakerLevels)
            num == 10000 * SubgroupScores(TakerLevels)
        IN  /\ score >= 0
            /\ score <= 10000
            /\ TakerLevels # {} =>
                  /\ 2 * (score * den - num) <= den
                  /\ 2 * (num - score * den) <= den

\* test-takers below and at or above the expected level attempted the item,
\* and those below got some of it right
C19_Witness ==
    /\ returned.kind = "metrics"
    /\ \E low, high \in TakerLevels :
          /\ ~AtOrAboveExpected(low)
          /\ AtOrAboveExpected(high)
          /\ CorrectOfLevel(low) # {}
          /\ CorrectOfLevel(low) # AttemptsOfLevel(low)
          /\ CorrectOfLevel(high) # AttemptsOfLevel(high)
    /\ returned.metrics.confidence_score > 0
    /\ returned.metrics.confidence_score < 10000

\* the stored metrics rows of a question, in a metrics table
StoredRowsOf(table, question_id) ==
    {i \in DOMAIN table : table[i].question_id = question_id}

\* the stored columns that hold metrics: all but last_calculated_at
MetricsColumns(row) ==
    [question_id |-> row.question_id,
     total_attempts |-> row.total_attempts,
     correct_attempts |-> row.correct_attempts,
     accuracy_rate |-> row.accuracy_rate,
     avg_time_seconds |-> row.avg_time_seconds,
     student_levels_attempted |-> row.student_levels_attempted,
     expected_level |-> row.expected_level,
     recommended_level |-> row.recommended_level,
     confidence_score |-> row.confidence_score,
     needs_review |-> row.needs_review]

\* a run of analyze_question_performance on unchanged data that follows a
\* run on the same question returns the same metrics; a run that saves over a
\* stored row leaves the metrics columns of that row as they were and adds
\* no row; and there is never more than one row per question
RerunChangesNothing ==
    returned'.kind = "metrics" =>
        LET q == returned'.metrics.question_id
        IN  /\ (returned.kind = "metrics" /\ returned.metrics.question_id = q)
                  => returned'.metrics = returned.metrics
            /\ (clock' # clock /\ StoredRowsOf(metrics, q) # {}) =>
                  /\ Len(metrics') = Len(metrics)
                  /\ \A i \in StoredRowsOf(metrics, q) :
                        MetricsColumns(metrics'[i]) = MetricsColumns(metrics[i])
            /\ clock' # clock =>
                  /\ Cardinality(StoredRowsOf(metrics', q)) = 1
                  /\ \A i \in StoredRowsOf(metrics', q) :
                        MetricsColumns(metrics'[i]) = returned'.metrics
            /\ \A other \in DOMAIN questions :
                  Cardinality(StoredRowsOf(metrics', other)) <= 1

\* C20: running analyze_question_performance twice in a row on unchanged
\* response and question data returns identical metrics and leaves the
\* stored metrics as they were after the first run: one metrics row per
\* question, with counts replaced and never accumulated.
C20_RerunIsIdempotent == [][RerunChangesNothing]_vars

\* the metrics of question 1, which has attempts, were saved twice
C20_Witness ==
    /\ returned.kind = "metrics"
    /\ returned.metrics.question_id = 1
    /\ Len(metrics) = 1
    /\ metrics[1].question_id = 1
    /\ metrics[1].total_attempts >= 2
    /\ metrics[1].last_calculated_at = LatestTime(sessions) + 2

(* --------------------------- CSV row validation ------------------------ *)

VALID_QUESTION_TYPES ==
    <<"multiple_choice", "fill_blank", "ordering", "audio_response">>

VALID_SKILL_TYPES == <<"grammar", "vocabulary", "reading", "listening">>

\* a cell pandas read as missing: pd.isna(cell)
NaN == <<"NaN">>

\* range(1, 7): the option columns option_1 .. option_6
OptionColumns == 6

\* x in a list
InList(x, list) == \E i \in DOMAIN list : list[i] = x

\* str(cell).strip() is not empty, for a cell that may be missing
NonBlank(cell) == cell # NaN /\ Strip(cell) # <<>>

\* lines 118-123: the stripped text of the non-blank option cells, in
\* column order; a column the file lacks counts as missing
RECURSIVE CollectOptions(_, _)
CollectOptions(cells, i) ==
    IF i > OptionColumns \/ i > Len(cells) THEN <<>>
    ELSE (IF NonBlank(cells[i]) THEN <<Strip(cells[i])>> ELSE <<>>)
            \o CollectOptions(cells, i + 1)

\* an entry of the errors list: "Row {row_num}: {message}"
RowError(row_num, message) == [row |-> row_num, message |-> message]

\* validate_csv_row stopping at the first violated check
validate_csv_row_first_error(row, row_num) ==
    LET options == CollectOptions(row.options, 1)
        correct_answer == IF row.correct_answer # NaN
                          THEN Strip(row.correct_answer) ELSE <<>>
        all ==
            (IF ~NonBlank(row.question_text)
             THEN <<RowError(row_num, "question_text is empty")>> ELSE <<>>)
            \o (IF ~InList(row.question_type, VALID_QUESTION_TYPES)
                THEN <<RowError(row_num, "Invalid question_type")>> ELSE <<>>)
            \o (IF ~InList(row.difficulty_level, VALID_DIFFICULTY_LEVELS)
                THEN <<RowError(row_num, "Invalid difficulty_level")>>
                ELSE <<>>)
            \o (IF ~InList(row.skill_focus, VALID_SKILL_TYPES)
                THEN <<RowError(row_num, "Invalid skill_focus")>> ELSE <<>>)
            \o (IF Len(options) < 2
                THEN <<RowError(row_num, "At least 2 options required")>>
                ELSE <<>>)
            \o (IF correct_answer = <<>>
                THEN <<RowError(row_num, "correct_answer is empty")>>
                ELSE IF ~InList(correct_answer, options)
                THEN <<RowError(row_num, "correct_answer not found in options")>>
                ELSE <<>>)
        errors == IF all = <<>> THEN <<>> ELSE <<Head(all)>>
    IN  [row_num |-> row_num, errors |-> errors, options |-> options,
         is_valid |-> Len(errors) = 0]

\* validate_csv_row
validate_csv_row(row, row_num) ==
    LET options == CollectOptions(row.options, 1)
        correct_answer == IF row.correct_answer # NaN
                          THEN Strip(row.correct_answer) ELSE <<>>
        errors ==
            (IF ~NonBlank(row.question_text)
             THEN <<RowError(row_num, "question_text is empty")>> ELSE <<>>)
            \o (IF ~InList(row.question_type, VALID_QUESTION_TYPES)
                THEN <<RowError(row_num, "Invalid question_type")>> ELSE <<>>)
            \o (IF ~InList(row.difficulty_level, VALID_DIFFICULTY_LEVELS)
                THEN <<RowError(row_num, "Invalid difficulty_level")>>
                ELSE <<>>)
            \o (IF ~InList(row.skill_focus, VALID_SKILL_TYPES)
                THEN <<RowError(row_num, "Invalid skill_focus")>> ELSE <<>>)
            \o (IF Len(options) < 2
                THEN <<RowError(row_num, "At least 2 options required")>>
                ELSE <<>>)
            \o (IF correct_answer = <<>>
                THEN <<RowError(row_num, "correct_answer is empty")>>
                ELSE IF ~InList(correct_answer, options)
                THEN <<RowError(row_num, "correct_answer not found in options")>>
                ELSE <<>>)
    IN  [row_num |-> row_num, errors |-> errors, options |-> options,
         is_valid |-> Len(errors) = 0]

MaxRichOptions == 2

\* the cells of a drawn row: its text, the first option columns and its
\* correct answer vary in blanks, case and surrounding whitespace
TextCells == {NaN, <<" ">>, <<"q">>}

RichOptionCells == {NaN, <<" ">>, <<"a">>, <<"a", " ">>, <<"A">>}

PlainOptionCells == {NaN, <<"b">>}

AnswerCells == {NaN, <<" ">>, <<"a">>, <<" ", "a">>, <<"A">>, <<"b">>, <<"c">>}

TypeCells == {"multiple_choice", "essay"}

LevelCells == {"B1", "b1"}

SkillCells == {"grammar", "writing"}

\* the values the option columns of a row can have
OptionCellRows ==
    {cells \in [1..OptionColumns -> RichOptionCells \cup PlainOptionCells] :
        /\ \A i \in 1..OptionColumns :
              i > MaxRichOptions => cells[i] \in PlainOptionCells
        /\ \A i \in 1..MaxRichOptions : cells[i] \in RichOptionCells}

InitValidate ==
    /\ sessions = <<>>
    /\ responses = <<>>
    /\ questions = <<>>
    /\ clock = 0
    /\ req = [r \in Slots |-> IdleReq]
    /\ selections = <<>>
    /\ overlaps = 0
    /\ engine = NewEngine(1)
    /\ metrics = <<>>
    /\ \E question_text \in TextCells, question_type \in TypeCells,
          difficulty_level \in LevelCells, skill_focus \in SkillCells,
          options \in OptionCellRows, correct_answer \in AnswerCells :
          returned = [kind |-> "row",
                      row |-> [question_text |-> question_text,
                               question_type |-> question_type,
                               difficulty_level |-> difficulty_level,
                               skill_focus |-> skill_focus,
                               options |-> options,
                               correct_answer |-> correct_answer]]
    /\ import_history = <<>>
    /\ import_errors = <<>>
    /\ reclassification_history = <<>>
    /\ import_run = NoImport
    /\ calibration_reports = <<>>

\* validation = validate_csv_row(row, row_num), for the first row of a file
Validate ==
    /\ returned.kind = "row"
    /\ returned' = [kind |-> "validation", row |-> returned.row,
                    validation |-> validate_csv_row(returned.row, 2)]
    /\ UNCHANGED <<sessions, responses, questions, clock, req, selections,
                   overlaps, engine, metrics, logs>>

NextValidate == Validate

SpecValidate == InitValidate /\ [][NextValidate]_vars

\* a text holds a character that is not whitespace
HasVisible(cell) == cell # NaN /\ \E i \in DOMAIN cell : ~IsSpace(cell[i])

\* what the checks of a row say, each on the row as it was read
TextGiven(row) == HasVisible(row.question_text)

TypeKnown(row) == row.question_type \in
    {"multiple_choice", "fill_blank", "ordering", "audio_response"}

LevelKnown(row) == row.difficulty_level \in Levels

SkillKnown(row) == row.skill_focus \in Skills

GivenOptions(row) == {i \in DOMAIN row.options : HasVisible(row.options[i])}

EnoughOptions(row) ==
    Cardinality(GivenOptions(row)) >= 2 /\ Cardinality(GivenOptions(row)) <= 6

AnswerGiven(row) == HasVisible(row.correct_answer)

AnswerAmongOptions(row) ==
    \E i \in GivenOptions(row) :
        Strip(row.options[i]) = Strip(row.correct_answer)

ErrorMessages(validation) ==
    {validation.errors[i].message : i \in DOMAIN validation.errors}

\* C21: validate_csv_row marks a row valid exactly when all checks pass
\* (non-blank text; recognised type, level and skill; 2 to 6 non-blank
\* options; non-blank correct answer that is among the options), and the
\* error list of an invalid row has an entry for every violated check.
C21_ValidIffAllChecksPass ==
    returned.kind = "validation" =>
        LET row == returned.row
            said == ErrorMessages(returned.validation)
        IN  /\ returned.validation.is_valid <=>
                  /\ TextGiven(row) /\ TypeKnown(row) /\ LevelKnown(row)
                  /\ SkillKnown(row) /\ EnoughOptions(row)
                  /\ AnswerGiven(row) /\ AnswerAmongOptions(row)
            /\ ~TextGiven(row) <=> "question_text is empty" \in said
            /\ ~TypeKnown(row) <=> "Invalid question_type" \in said
            /\ ~LevelKnown(row) <=> "Invalid difficulty_level" \in said
            /\ ~SkillKnown(row) <=> "Invalid skill_focus" \in said
            /\ ~EnoughOptions(row) <=> "At least 2 options required" \in said
            /\ ~AnswerGiven(row) <=> "correct_answer is empty" \in said
            /\ (AnswerGiven(row) /\ ~AnswerAmongOptions(row)) <=>
                  "correct_answer not found in options" \in said
            /\ \A i \in DOMAIN returned.validation.errors :
                  returned.validation.errors[i].row = returned.validation.row_num

\* a row that violates every check, with an entry for each
C21_Witness ==
    /\ returned.kind = "validation"
    /\ ~returned.validation.is_valid
    /\ Len(returned.validation.errors) = 6
    /\ ~TextGiven(returned.row)
    /\ ~EnoughOptions(returned.row)
    /\ ~AnswerAmongOptions(returned.row)

(* ------------- equality at validation time and at grading time --------- *)

\* the answers submitted to a question that came from a validated row
GradedAnswers == {<<"a">>, <<" ", "A">>, <<"A", " ">>, <<"b">>}

\* engine.record_response(question, student_answer, time_taken) on the
\* question the import stores for a valid row (lines 183-192), with the
\* validation of the row kept beside the result
Grade(student_answer) ==
    /\ returned.kind = "validation"
    /\ returned.validation.is_valid
    /\ LET question == [id |-> 1,
                        difficulty_level |-> returned.row.difficulty_level,
                        skill_focus |-> returned.row.skill_focus,
                        correct_answer |-> Strip(returned.row.correct_answer)]
           rec == record_response(engine, question, student_answer, 4)
       IN  /\ engine' = rec.engine
           /\ returned' = [kind |-> "graded", row |-> returned.row,
                           validation |-> returned.validation,
                           correct_answer |-> question.correct_answer,
                           student_answer |-> student_answer,
                           is_correct |-> rec.is_correct]
    /\ UNCHANGED <<sessions, responses, questions, clock, req, selections,
                   overlaps, metrics, logs>>

NextEquality ==
    \/ Validate
    \/ \E student_answer \in GradedAnswers : Grade(student_answer)

SpecEquality == InitValidate /\ [][NextEquality]_vars

\* two texts are the same up to letter case
SameLetters(a, b) ==
    /\ Len(a) = Len(b)
    /\ \A i \in DOMAIN a : LowerChar(a[i]) = LowerChar(b[i])

\* two texts differ at most in letter case and in surrounding whitespace:
\* they hold parts that are the same up to case, with only whitespace around
SameUpToCaseAndSpace(a, b) ==
    \E i1 \in 1..(Len(a) + 1), j1 \in 0..Len(a),
       i2 \in 1..(Len(b) + 1), j2 \in 0..Len(b) :
        /\ i1 <= j1 + 1
        /\ i2 <= j2 + 1
        /\ \A k \in DOMAIN a : (k < i1 \/ k > j1) => IsSpace(a[k])
        /\ \A k \in DOMAIN b : (k < i2 \/ k > j2) => IsSpace(b[k])
        /\ SameLetters(SubSeq(a, i1, j1), SubSeq(b, i2, j2))

\* the same, with the letter case kept
SameUpToSpace(a, b) ==
    \E i1 \in 1..(Len(a) + 1), j1 \in 0..Len(a),
       i2 \in 1..(Len(b) + 1), j2 \in 0..Len(b) :
        /\ i1 <= j1 + 1
        /\ i2 <= j2 + 1
        /\ \A k \in DOMAIN a : (k < i1 \/ k > j1) => IsSpace(a[k])
        /\ \A k \in DOMAIN b : (k < i2 \/ k > j2) => IsSpace(b[k])
        /\ SubSeq(a, i1, j1) = SubSeq(b, i2, j2)

\* the validated row has a correct answer that is no option as written
AnswerIsNoOptionAsWritten ==
    /\ AnswerGiven(returned.row)
    /\ \A i \in GivenOptions(returned.row) :
          returned.row.options[i] # returned.row.correct_answer

NotFoundSaid ==
    "correct_answer not found in options"
        \in ErrorMessages(returned.validation)

\* C22 as stated: a row whose correct answer differs from every option in
\* letter case or in surrounding whitespace fails the containment check,
\* and a submitted answer that differs from the correct answer only in
\* letter case or surrounding whitespace is graded correct.
C22_CaseOrSpaceFailsValidation ==
    /\ (/\ returned.kind = "validation"
        /\ AnswerIsNoOptionAsWritten
        /\ \E i \in GivenOptions(returned.row) :
              SameUpToCaseAndSpace(returned.row.options[i],
                                   returned.row.correct_answer))
          => NotFoundSaid
    /\ (/\ returned.kind = "graded"
        /\ SameUpToCaseAndSpace(returned.student_answer,
                                returned.correct_answer))
          => returned.is_correct

\* C22, amended: a row whose correct answer differs from every option by
\* more than surrounding whitespace, be it only in letter case, fails the
\* containment check, while one that differs from an option in surrounding
\* whitespace only passes it; a submitted answer that differs from the
\* correct answer only in letter case or surrounding whitespace is graded
\* correct.
C22_CaseFailsValidationOnly ==
    /\ (/\ returned.kind = "validation"
        /\ AnswerGiven(returned.row)
        /\ \A i \in GivenOptions(returned.row) :
              ~SameUpToSpace(returned.row.options[i],
                             returned.row.correct_answer))
          => NotFoundSaid
    /\ (/\ returned.kind = "validation"
        /\ \E i \in GivenOptions(returned.row) :
              SameUpToSpace(returned.row.options[i],
                            returned.row.correct_answer))
          => ~NotFoundSaid
    /\ (/\ returned.kind = "graded"
        /\ SameUpToCaseAndSpace(returned.student_answer,
                                returned.correct_answer))
          => returned.is_correct

\* a row whose correct answer matches an option only after trimming was
\* found valid, and an answer in another case and padding was graded correct
C22_Witness ==
    /\ returned.kind = "graded"
    /\ AnswerIsNoOptionAsWritten
    /\ returned.student_answer # returned.correct_answer
    /\ Lower(returned.student_answer) # Lower(returned.correct_answer)
    /\ Strip(returned.student_answer) # Strip(returned.correct_answer)
    /\ returned.is_correct

(* ------------------------------ bulk import ---------------------------- *)

MaxImportRows == 2

MaxImports == 1

MaxStoreFailures == 1

MaxCreated == 1

\* a row of an uploaded file
CsvRow(question_text, options, correct_answer) ==
    [question_text |-> question_text,
     question_type |-> "multiple_choice",
     difficulty_level |-> "B1",
     skill_focus |-> "grammar",
     options |-> options,
     correct_answer |-> correct_answer]

\* the rows of the uploaded files: one valid as written, one valid after
\* trimming, one that fails two checks
ImportRows ==
    {CsvRow(<<"q">>, <<<<"a">>, <<"b">>>>, <<"a">>),
     CsvRow(<<"q">>, <<<<"a", " ">>, <<"b">>, NaN>>, <<" ", "a">>),
     CsvRow(<<" ">>, <<<<"a">>, <<"b">>>>, <<"A">>)}

\* the frames pd.read_csv yields, up to n rows
RECURSIVE Frames(_)
Frames(n) ==
    IF n = 0 THEN {<<>>}
    ELSE LET shorter == Frames(n - 1)
         IN  shorter \cup {Append(df, row) :
                              df \in {x \in shorter : Len(x) = n - 1},
                              row \in ImportRows}

\* a statement may fail while the store failures are not used up
MayFail(fails) == fails => import_run.failures < MaxStoreFailures

\* HTTPException(500, "Import failed: ...") leaving bulk_import_questions;
\* what the import has written stays written
ImportAborted(failures) ==
    /\ import_run' = [NoImport EXCEPT !.failures = failures]
    /\ returned' = [kind |-> "error", status |-> 500,
                    detail |-> "Import failed"]

\* lines 147-158: the import record is created
ImportBegin(df, fails) ==
    /\ import_run.pc = "idle"
    /\ Len(import_history) < MaxImports
    /\ MayFail(fails)
    /\ IF fails
       THEN /\ ImportAborted(import_run.failures + 1)
            /\ UNCHANGED import_history
       ELSE /\ import_history' = Append(import_history,
                  [uploaded_by |-> "admin", total_rows |-> Len(df),
                   import_status |-> "processing", successful_imports |-> 0,
                   failed_imports |-> 0, completed_at |-> NoTime])
            /\ import_run' = [NoImport EXCEPT
                                !.pc = "rows", !.df = df,
                                !.import_id = Len(import_history) + 1,
                                !.failures = import_run.failures]
            /\ returned' = NoReturn
    /\ UNCHANGED <<sessions, responses, questions, clock, req, selections,
                   overlaps, engine, metrics, import_errors,
                   reclassification_history, calibration_reports>>

\* the row the import stores for a valid file row (lines 187-203)
ImportedQuestion(row, options, import_id) ==
    [difficulty_level |-> row.difficulty_level,
     skill_focus |-> row.skill_focus,
     correct_answer |-> Strip(row.correct_answer),
     options |-> options,
     imported_from_batch_id |-> import_id]

\* lines 205-206 with the imported row counted as failed as well
RowImported_also_failed(run, question_id) ==
    [run EXCEPT !.idx = @ + 1, !.successful = @ + 1, !.failed = @ + 1,
                !.imported_ids = Append(@, question_id)]

\* lines 205-206: the row is counted as imported
RowImported(run, question_id) ==
    [run EXCEPT !.idx = @ + 1, !.successful = @ + 1,
                !.imported_ids = Append(@, question_id)]

\* lines 165-169 and 209-213: the row is counted as failed
RowFailed(run, entry, used) ==
    [run EXCEPT !.idx = @ + 1, !.failed = @ + 1,
                !.errors = Append(@, entry), !.failures = @ + used]

\* lines 160-222: one pass of the loop over the rows. insert_fails: the
\* INSERT of the question raises; log_fails: the INSERT into
\* question_import_errors raises.
ImportRow(insert_fails, log_fails) ==
    /\ import_run.pc = "rows"
    /\ import_run.idx < Len(import_run.df)
    /\ LET row == import_run.df[import_run.idx + 1]
           row_num == import_run.idx + 2
           validation == validate_csv_row(row, row_num)
           used == (IF insert_fails THEN 1 ELSE 0) + (IF log_fails THEN 1 ELSE 0)
           entry == [row |-> row_num,
                     errors |-> IF validation.is_valid
                                THEN <<[message |-> "Database error"]>>
                                ELSE validation.errors]
       IN  /\ insert_fails => validation.is_valid
           /\ log_fails => (~validation.is_valid \/ insert_fails)
           /\ import_run.failures + used <= MaxStoreFailures
           /\ IF validation.is_valid /\ ~insert_fails
              THEN /\ questions' = Append(questions,
                          ImportedQuestion(row, validation.options,
                                           import_run.import_id))
                   /\ import_run' = RowImported(import_run,
                                                 Len(questions) + 1)
                   /\ UNCHANGED <<import_errors, returned>>
              ELSE IF log_fails
              THEN /\ ImportAborted(import_run.failures + used)
                   /\ UNCHANGED <<questions, import_errors>>
              ELSE /\ import_errors' = Append(import_errors,
                          [import_id |-> import_run.import_id,
                           row_num |-> row_num,
                           error_message |-> entry.errors])
                   /\ import_run' = RowFailed(import_run, entry, used)
                   /\ UNCHANGED <<questions, returned>>
    /\ UNCHANGED <<sessions, responses, clock, req, selections, overlaps,
                   engine, metrics, import_history, reclassification_history,
                   calibration_reports>>

\* lines 224-244: the import record is closed and the summary returned
ImportFinish(fails) ==
    /\ import_run.pc = "rows"
    /\ import_run.idx = Len(import_run.df)
    /\ MayFail(fails)
    /\ IF fails
       THEN /\ ImportAborted(import_run.failures + 1)
            /\ UNCHANGED <<import_history, clock>>
       ELSE /\ import_history' = [import_history EXCEPT
                  ![import_run.import_id].successful_imports =
                      import_run.successful,
                  ![import_run.import_id].failed_imports = import_run.failed,
                  ![import_run.import_id].import_status = "completed",
                  ![import_run.import_id].completed_at = Now]
            /\ clock' = Now
            /\ import_run' = [NoImport EXCEPT !.failures = import_run.failures]
            /\ returned' = [kind |-> "import", status |-> 200,
                            df |-> import_run.df,
                            import_id |-> import_run.import_id,
                            total_rows |-> Len(import_run.df),
                            successful_imports |-> import_run.successful,
                            failed_imports |-> import_run.failed,
                            errors |-> import_run.errors,
                            imported_question_ids |-> import_run.imported_ids]
    /\ UNCHANGED <<sessions, responses, questions, req, selections, overlaps,
                   engine, metrics, import_errors, reclassification_history,
                   calibration_reports>>

(* ---------------------------- create_question -------------------------- *)

\* imported_from_batch_id of a question no import stored
NoBatch == 0

\* QuestionCreateRequest: options holds two to six items
MinOptionItems == 2

MaxOptionItems == 6

\* the bodies of the create requests: one, two or seven options; an answer
\* that is an option and one that is none
CreateOptionLists ==
    {<<<<"a">>>>,
     <<<<"a">>, <<"b">>>>,
     <<<<"a">>, <<"b">>, <<"c">>, <<"d">>, <<"e">>, <<"f">>, <<"g">>>>}

CreateAnswers == {<<"a">>, <<"z">>}

CreateRequests ==
    [options : CreateOptionLists, correct_answer : CreateAnswers]

\* what pydantic accepts of a QuestionCreateRequest
AcceptedRequest(request) ==
    /\ Len(request.options) >= MinOptionItems
    /\ Len(request.options) <= MaxOptionItems

CreatedQuestions == {q \in DOMAIN questions :
                        questions[q].imported_from_batch_id = NoBatch}

\* POST /api/questions/create
CreateQuestion(request, fails) ==
    /\ import_run.pc = "idle"
    /\ Cardinality(CreatedQuestions) < MaxCreated
    /\ MayFail(fails)
    /\ fails => AcceptedRequest(request)
    /\ IF ~AcceptedRequest(request)
       THEN /\ returned' = [kind |-> "error", status |-> 422,
                            detail |-> "Unprocessable"]
            /\ UNCHANGED <<questions, import_run>>
       ELSE IF fails
       THEN /\ returned' = [kind |-> "error", status |-> 500,
                            detail |-> "Database error"]
            /\ import_run' = [import_run EXCEPT !.failures = @ + 1]
            /\ UNCHANGED questions
       ELSE /\ questions' = Append(questions,
                  [difficulty_level |-> "B1",
                   skill_focus |-> "grammar",
                   correct_answer |-> request.correct_answer,
                   options |-> request.options,
                   imported_from_batch_id |-> NoBatch])
            /\ returned' = [kind |-> "created", status |-> 200,
                            question_id |-> Len(questions) + 1]
            /\ UNCHANGED import_run
    /\ UNCHANGED <<sessions, responses, clock, req, selections, overlaps,
                   engine, metrics, import_history, import_errors,
                   reclassification_history, calibration_reports>>

InitImport ==
    /\ sessions = <<>>
    /\ responses = <<>>
    /\ questions = <<>>
    /\ clock = 0
    /\ req = [r \in Slots |-> IdleReq]
    /\ selections = <<>>
    /\ overlaps = 0
    /\ engine = NewEngine(1)
    /\ metrics = <<>>
    /\ returned = NoReturn
    /\ import_history = <<>>
    /\ import_errors = <<>>
    /\ reclassification_history = <<>>
    /\ import_run = NoImport
    /\ calibration_reports = <<>>

NextImport ==
    \/ \E df \in Frames(MaxImportRows), fails \in BOOLEAN :
          ImportBegin(df, fails)
    \/ \E insert_fails \in BOOLEAN, log_fails \in BOOLEAN :
          ImportRow(insert_fails, log_fails)
    \/ \E fails \in BOOLEAN : ImportFinish(fails)
    \/ \E request \in CreateRequests, fails \in BOOLEAN :
          CreateQuestion(request, fails)

SpecImport == InitImport /\ [][NextImport]_vars

(* ------------------------------- C23 ----------------------------------- *)

\* an import the endpoint gave up with "Import failed"
ImportGaveUp == returned.kind = "error" /\ returned.detail = "Import failed"

\* C23: the bulk import always runs to completion: whatever rows fail
\* validation and whatever statements the store refuses, no import ends in
\* an "Import failed" reply, and once no import is running every import
\* record has status 'completed'.
C23_ImportRunsToCompletion ==
    /\ ~ImportGaveUp
    /\ import_run.pc = "idle" =>
          \A i \in DOMAIN import_history :
              import_history[i].import_status = "completed"

(* ------------------------------- C29 ----------------------------------- *)

\* the entries of the summary's error list for a row number
ErrorEntriesOf(row_num) ==
    {e \in DOMAIN returned.errors : returned.errors[e].row = row_num}

\* the row numbers of the file the summary names no error for, in file order
RECURSIVE CleanRows(_)
CleanRows(n) ==
    IF n = 0 THEN <<>>
    ELSE IF ErrorEntriesOf(n + 1) = {}
         THEN Append(CleanRows(n - 1), n + 1)
         ELSE CleanRows(n - 1)

\* the reason an error entry must carry for its row
ReasonFits(entry, row) ==
    LET validation == validate_csv_row(row, entry.row)
    IN  IF validation.is_valid
        THEN ErrorMessages(entry) = {"Database error"}
        ELSE entry.errors = validation.errors /\ Len(entry.errors) >= 1

\* C29: when the bulk import returns its summary, successful_imports +
\* failed_imports = total_rows, imported_question_ids has successful_imports
\* entries, and every row of the file has either one inserted id (a stored
\* question of this import carrying the row's trimmed answer) or exactly one
\* error entry with its row number and its reason, never both.
C29_SummaryAccountsForEveryRow ==
    returned.kind = "import" =>
        LET clean == CleanRows(Len(returned.df))
            ids == returned.imported_question_ids
        IN  /\ returned.total_rows = Len(returned.df)
            /\ returned.successful_imports + returned.failed_imports
                  = returned.total_rows
            /\ Len(ids) = returned.successful_imports
            /\ Len(returned.errors) = returned.failed_imports
            /\ Len(clean) = Len(ids)
            /\ \A k \in DOMAIN ids :
                  /\ ids[k] \in DOMAIN questions
                  /\ \A j \in DOMAIN ids : ids[j] = ids[k] => j = k
                  /\ questions[ids[k]].imported_from_batch_id
                        = returned.import_id
                  /\ questions[ids[k]].correct_answer
                        = Strip(returned.df[clean[k] - 1].correct_answer)
            /\ \A n \in 1..Len(returned.df) :
                  Cardinality(ErrorEntriesOf(n + 1)) <= 1
            /\ \A e \in DOMAIN returned.errors :
                  /\ returned.errors[e].row - 1 \in 1..Len(returned.df)
                  /\ ReasonFits(returned.errors[e],
                                returned.df[returned.errors[e].row - 1])

\* a summary of a two-row file with one row imported and one row refused by
\* the store
C29_Witness ==
    /\ returned.kind = "import"
    /\ returned.total_rows = 2
    /\ returned.successful_imports = 1
    /\ \E e \in DOMAIN returned.errors :
          ErrorMessages(returned.errors[e]) = {"Database error"}

(* ------------------------------- C30 ----------------------------------- *)

\* the question has two to six options and a non-empty correct answer that
\* is one of them
WellFormedQuestion(q) ==
    /\ Len(q.options) >= MinOptionItems
    /\ Len(q.options) <= MaxOptionItems
    /\ q.correct_answer # <<>>
    /\ \E o \in DOMAIN q.options : q.options[o] = q.correct_answer

\* C30: after any sequence of bulk imports and create_question calls every
\* question of the bank has two to six options and a non-empty correct
\* answer equal to one of its options.
C30_BankQuestionsWellFormed ==
    \A q \in DOMAIN questions : WellFormedQuestion(questions[q])

(* ------------------------------- C24 ----------------------------------- *)

MaxPureHistory == 3

\* the states an engine holding a drawn history can be in: any session, any
\* current level
InitPure ==
    /\ sessions = <<>>
    /\ responses = <<>>
    /\ questions = InitBank
    /\ clock = 0
    /\ req = [r \in Slots |-> IdleReq]
    /\ selections = <<>>
    /\ overlaps = 0
    /\ engine \in {[NewEngine(session_id) EXCEPT
                        !.responses = h, !.current_level = level,
                        !.questions_asked = Len(h)] :
                      session_id \in {1, 2}, level \in Levels,
                      h \in Histories(MaxPureHistory)}
    /\ metrics = <<>>
    /\ returned = NoReturn
    /\ import_history = <<>>
    /\ import_errors = <<>>
    /\ reclassification_history = <<>>
    /\ import_run = NoImport
    /\ calibration_reports = <<>>

NextPure == Resolve

SpecPure == InitPure /\ [][NextPure]_vars

\* a new engine holding the same response history and nothing else of e
SameHistoryEngine(e) == [NewEngine(0) EXCEPT !.responses = e.responses]

\* C24: calculate_final_level is a pure function of the response history:
\* the call leaves the engine and the store as they were, and what it returns
\* (detected level, confidence, per-level breakdown and the rest) is what it
\* returns for any engine holding the same response sequence.
C24_PureFunctionOfHistory ==
    /\ [](returned.kind = "final_level" =>
             returned.result = calculate_final_level(SameHistoryEngine(engine)))
    /\ [][/\ engine' = engine
          /\ sessions' = sessions
          /\ responses' = responses
          /\ questions' = questions
          /\ metrics' = metrics]_vars

\* the result for an engine of session 2 at level C2 whose history has no
\* level with two responses
C24_Witness ==
    /\ returned.kind = "final_level"
    /\ engine.session_id = 2
    /\ engine.current_level = "C2"
    /\ Len(engine.responses) = 3
    /\ returned.result.detected_level = "A1"
    /\ returned.result.level_breakdown["C2"].total = 1

(* --------------------------- reclassification -------------------------- *)

MaxReclassifications == 1

\* new_level of a reclassify request (X1 is no level)
NewLevelInputs == {"A1", "C2", "X1"}

\* log_reclassification
log_reclassification(table, question_id, old_level, new_level) ==
    Append(table, [question_id |-> question_id, old_level |-> old_level,
                   new_level |-> new_level, reclassified_by |-> "admin",
                   reason |-> NULL])

\* PUT /api/validation/reclassify/{question_id}: the level check, the read of
\* the old level, the update, the log entry and the recalculation of the
\* metrics with saving. metrics is what the inner
\* analyze_question_performance returned.
Reclassify(question_id, new_level) ==
    /\ Len(reclassification_history) < MaxReclassifications
    /\ IF ~InList(new_level, VALID_DIFFICULTY_LEVELS)
       THEN /\ returned' = [kind |-> "error", status |-> 400]
            /\ UNCHANGED <<questions, metrics, clock,
                           reclassification_history>>
       ELSE IF question_id \notin DOMAIN questions
       THEN /\ returned' = [kind |-> "error", status |-> 404]
            /\ UNCHANGED <<questions, metrics, clock,
                           reclassification_history>>
       ELSE LET old_level == questions[question_id].difficulty_level
                bank == [questions EXCEPT
                            ![question_id].difficulty_level = new_level]
                m == analyze_question_performance(sessions, responses, bank,
                                                  question_id)
            IN  /\ questions' = bank
                /\ reclassification_history' =
                      log_reclassification(reclassification_history,
                                           question_id, old_level, new_level)
                /\ metrics' = save_question_metrics(metrics, m, Now)
                /\ clock' = Now
                /\ returned' = [kind |-> "reclassified", status |-> 200,
                                question_id |-> question_id,
                                old_level |-> old_level,
                                new_level |-> new_level,
                                metrics |-> m]
    /\ UNCHANGED <<sessions, responses, req, selections, overlaps, engine,
                   import_history, import_errors, import_run,
                   calibration_reports>>

InitReclass == InitStore(MaxSavedAttempts)

NextReclass ==
    \/ \E question_id \in CalibrationInputs, save_to_db \in BOOLEAN :
          Analyze(question_id, save_to_db)
    \/ \E question_id \in CalibrationInputs, new_level \in NewLevelInputs :
          Reclassify(question_id, new_level)

SpecReclass == InitReclass /\ [][NextReclass]_vars

(* ------------------------------- C25 ----------------------------------- *)

\* a step in which analyze_question_performance ran with saving: called by
\* itself, or by reclassify_question
SavingRun ==
    \/ returned'.kind = "metrics" /\ clock' # clock
    \/ returned'.kind = "reclassified"

\* after the saving run the question has one stored row and its metrics
\* columns are the returned metrics
StoredEqualsReturned ==
    SavingRun =>
        LET q == returned'.metrics.question_id
        IN  /\ Cardinality(StoredRowsOf(metrics', q)) = 1
            /\ \A i \in StoredRowsOf(metrics', q) :
                  MetricsColumns(metrics'[i]) = returned'.metrics

\* C25: after analyze_question_performance with saving returns, the stored
\* metrics row of the question equals the returned metrics in every field
\* (counts, accuracy, mean time, level distribution, expected level,
\* recommended level, confidence, needs_review), whatever row was stored
\* before the call.
C25_StoredRowEqualsReturned == [][StoredEqualsReturned]_vars

(* ------------------------------- C26 ----------------------------------- *)

\* the assessment API served one request at a time, with questions being
\* reclassified in between
NextPosed ==
    \/ NextSeq
    \/ \E question_id \in CalibrationInputs, new_level \in NewLevelInputs :
          Reclassify(question_id, new_level)

SpecPosed == Init /\ [][NextPosed]_vars

\* the selections that posed the question of a stored response to its session
PosedAs(row) ==
    {k \in DOMAIN selections[row.session_id] :
        selections[row.session_id][k].question_id = row.question_id}

\* C26: each stored response's difficulty_at_question is the level the
\* question had when it was posed to the session, also when the question was
\* reclassified between being posed and being answered.
C26_DifficultyAsPosed ==
    \A i \in DOMAIN responses :
        PosedAs(responses[i]) # {} =>
            \E k \in PosedAs(responses[i]) :
                selections[responses[i].session_id][k].question_level
                    = responses[i].difficulty_at_question

(* ------------------------------- C27 ----------------------------------- *)

\* a bank row of a level and a skill
BankQuestion(level, skill) ==
    [difficulty_level |-> level, skill_focus |-> skill,
     correct_answer |-> <<"a">>]

\* banks holding one question at every level: all of one skill, or of
\* alternating skills
FullBanks ==
    {[i \in 1..Len(CEFR_LEVELS_ORDER) |->
         BankQuestion(CEFR_LEVELS_ORDER[i], "grammar")],
     [i \in 1..Len(CEFR_LEVELS_ORDER) |->
         BankQuestion(CEFR_LEVELS_ORDER[i],
                      IF i % 2 = 0 THEN "reading" ELSE "vocabulary")]}

InitFull ==
    /\ sessions = <<>>
    /\ responses = <<>>
    /\ questions \in FullBanks
    /\ clock = 0
    /\ req = [r \in Slots |-> IdleReq]
    /\ selections = <<>>
    /\ overlaps = 0
    /\ engine = NewEngine(1)
    /\ metrics = <<>>
    /\ returned = NoReturn
    /\ import_history = <<>>
    /\ import_errors = <<>>
    /\ reclassification_history = <<>>
    /\ import_run = NoImport
    /\ calibration_reports = <<>>

\* the open sessions, and the question posed last to a session
OpenSessions == {s \in DOMAIN sessions : sessions[s].completed_at = NoTime}

PosedLast(session_id) ==
    IF session_id \in DOMAIN selections /\ selections[session_id] # <<>>
    THEN {selections[session_id][Len(selections[session_id])].question_id}
    ELSE {}

\* a known test-taker starts a session and answers each question posed to
\* it, one request at a time; nobody cancels
NextAnswering ==
    \/ \E student_id \in Users : StartCheckStudent(1, student_id, MaxSessions)
    \/ StartCheckExisting(1)
    \/ StartInsert(1)
    \/ StartFirstQuestion(1)
    \/ \E session_id \in OpenSessions : SubmitReadSession(1, session_id)
    \/ \E question_id \in PosedLast(req[1].session_id) :
          SubmitReadQuestion(1, question_id)
    \/ SubmitLoadResponses(1)
    \/ \E student_answer \in validate_answer(req[1].session_id),
          time_taken \in TimeInputs(req[1].session_id) :
          SubmitRecordResponse(1, student_answer, time_taken)
    \/ SubmitUpdateStats(1)
    \/ SubmitFinalize(1)
    \/ SubmitLevelDifference(1)
    \/ SubmitNextQuestion(1)
    \/ Return(1)

\* the test-taker sends an answer for an open session
AnswerPosed == \E session_id \in OpenSessions : SubmitReadSession(1, session_id)

\* the server runs each request to its end, and the test-taker of an open
\* session sends the next answer again and again, whatever other requests
\* are sent in between
SpecAnswering ==
    /\ InitFull
    /\ [][NextAnswering]_vars
    /\ WF_vars(NextAnswering)
    /\ SF_vars(AnswerPosed)

\* a request ended with the reply "no question available"
SelectionFailed == \E r \in Slots : req[r].pc = "done" /\ req[r].reply.status = 500

\* C27: with a bank holding at least one question at every level, selection
\* never fails (no start_assessment and no submit_answer ends without a next
\* question for want of one), and a session whose test-taker answers every
\* posed question and never cancels eventually is complete.
C27_SelectionNeverFailsSessionCompletes ==
    /\ []~SelectionFailed
    /\ \A s \in 1..MaxSessions :
          (s \in DOMAIN sessions)
             ~> (s \in DOMAIN sessions /\ sessions[s].completed_at # NoTime)

\* a session completed with a detected level after every selection was served
C27_Witness ==
    /\ 1 \in DOMAIN sessions
    /\ sessions[1].completed_at # NoTime
    /\ sessions[1].final_detected_level # NULL
    /\ Len(selections[1]) >= max_questions
    /\ \E k \in DOMAIN selections[1] : selections[1][k].question_skill # selections[1][k].skill

(* ------------------------------- C28 ----------------------------------- *)

\* lines 523-524 with the INSERT refused and the session counted all the same
SubmitRecordFails_but_counts(r) ==
    /\ req[r].pc = "submit_3"
    /\ req' = [req EXCEPT ![r] = Done("submit", Error(500))]
    /\ sessions' = [sessions EXCEPT
            ![req[r].session_id].questions_answered = @ + 1]
    /\ UNCHANGED <<responses, questions, clock, selections, overlaps,
                   engine, metrics, returned, logs>>

\* lines 523-524 when the store refuses the INSERT of record_response:
\* execute_query rolls back and raises HTTPException(500), which nothing in
\* submit_answer catches
SubmitRecordFails(r) ==
    /\ req[r].pc = "submit_3"
    /\ req' = [req EXCEPT ![r] = Done("submit", Error(500))]
    /\ UNCHANGED <<sessions, responses, questions, clock, selections,
                   overlaps, engine, metrics, returned, logs>>

\* the assessment API served one request at a time by a store that may
\* refuse to persist a response
NextPersist ==
    \/ NextSeq
    \/ SubmitRecordFails(1)

SpecPersist == Init /\ [][NextPersist]_vars

\* the responses of a session that are stored and not yet counted: the one
\* of the request that has inserted its row and not yet updated the session
StoredUncounted(session_id) ==
    IF req[1].pc = "submit_4" /\ req[1].session_id = session_id
    THEN 1 ELSE 0

\* the step in which the INSERT of a response is refused
PersistFailedStep == req[1].pc = "submit_3" /\ req'[1].pc = "done"

\* the step in which submit_answer replies with success
SuccessReplyStep ==
    /\ req[1].op = "submit"
    /\ req[1].pc # "done"
    /\ req'[1].pc = "done"
    /\ req'[1].reply.status = 200

\* C28: when persisting a response fails, submit_answer ends with the error
\* reply 500 and leaves the stored responses and the sessions (counters and
\* completion) as they were; every successful submit_answer reply is for a
\* request whose response is stored once, as the last row of its session,
\* and each session has as many stored responses as answers counted.
C28_PersistFailureIsHardError ==
    /\ [](\A s \in DOMAIN sessions :
             Len(RowsOf(s))
                = sessions[s].questions_answered + StoredUncounted(s))
    /\ [][/\ PersistFailedStep =>
                /\ req'[1].reply.status = 500
                /\ responses' = responses
                /\ sessions' = sessions
          /\ SuccessReplyStep =>
                LET rows == RowsOf(req[1].session_id)
                IN  /\ rows # <<>>
                    /\ responses' = responses
                    /\ rows[Len(rows)].question_id = req[1].question.id
                    /\ rows[Len(rows)].is_correct = req[1].is_correct
                    /\ Cardinality({i \in DOMAIN rows :
                          rows[i].question_sequence
                             = rows[Len(rows)].question_sequence}) = 1]_vars

\* the third answer of a session was refused by the store: two responses
\* stored, two counted, the session open
C28_Witness ==
    /\ req[1].pc = "done"
    /\ req[1].op = "submit"
    /\ req[1].reply.status = 500
    /\ Len(RowsOf(1)) = 2
    /\ sessions[1].questions_answered = 2
    /\ sessions[1].completed_at = NoTime

(* -------------------------- calibration report ------------------------- *)

MaxReportBank == 5

MaxFailedAnalyses == 1

MaxReports == 1

\* the ids of the bank in the order of the SELECT, without those whose
\* analysis raises
AnalysedIds(bank, failing) ==
    SelectSeq([q \in 1..Len(bank) |-> q], LAMBDA q : q \notin failing)

\* lines 409-411: the metrics of the questions whose analysis returned
AnalysedMetrics(sess, resp, bank, failing) ==
    LET ids == AnalysedIds(bank, failing)
    IN  [k \in DOMAIN ids |->
            analyze_question_performance(sess, resp, bank, ids[k])]

\* lines 413-427: level_stats, keyed by the expected levels met
report_level_stats(ms) ==
    [level \in {ms[k].expected_level : k \in DOMAIN ms} |->
        [total |-> Cardinality({k \in DOMAIN ms :
                        ms[k].expected_level = level}),
         accurate |-> Cardinality({k \in DOMAIN ms :
                        /\ ms[k].expected_level = level
                        /\ ~ms[k].needs_review})]]

\* lines 415-416: needs_review_count
needs_review_count(ms) ==
    Cardinality({k \in DOMAIN ms : ms[k].needs_review})

\* the keys of level_stats in the order of their insertion
RECURSIVE LevelOrder(_)
LevelOrder(ms) ==
    IF ms = <<>> THEN <<>>
    ELSE LET before == LevelOrder(SubSeq(ms, 1, Len(ms) - 1))
             level == ms[Len(ms)].expected_level
         IN  IF \E i \in DOMAIN before : before[i] = level THEN before
             ELSE Append(before, level)

\* lines 432-437: the percentage of a level, in hundredths
report_level_accuracy(stats) ==
    [level \in DOMAIN stats |->
        IF stats[level].total > 0
        THEN Round(10000 * stats[level].accurate, stats[level].total)
        ELSE 0]

\* the bank-wide check with the threshold included
HighPriority_inclusive(count, total_questions) ==
    5 * count >= total_questions

\* line 442: needs_review_count > len(questions) * 0.2
HighPriority(count, total_questions) == 5 * count > total_questions

\* line 446: accuracy < 70
PoorlyCalibrated(accuracy) == accuracy < 7000

\* lines 440-450: the recommendations, each as its kind and its level
recommendations_of(count, total_questions, order, accuracy) ==
    LET high == IF HighPriority(count, total_questions)
                THEN <<[kind |-> "high_priority", level |-> NULL]>>
                ELSE <<>>
        poor == SelectSeq(order, LAMBDA level :
                            PoorlyCalibrated(accuracy[level]))
        all == high \o [i \in DOMAIN poor |->
                            [kind |-> "level", level |-> poor[i]]]
    IN  IF all = <<>>
        THEN <<[kind |-> "well_calibrated", level |-> NULL]>>
        ELSE all

\* lines 417-425: the entry of a question that needs review
Misclassified(m) ==
    [question_id |-> m.question_id,
     current_level |-> m.expected_level,
     recommended_level |-> m.recommended_level,
     accuracy_rate |-> m.accuracy_rate,
     confidence_score |-> m.confidence_score,
     total_attempts |-> m.total_attempts]

\* sorted(misclassified, key = confidence_score): a stable sort
RECURSIVE InsertByConfidence(_, _)
InsertByConfidence(sorted, entry) ==
    IF sorted = <<>> THEN <<entry>>
    ELSE IF Head(sorted).confidence_score <= entry.confidence_score
    THEN <<Head(sorted)>> \o InsertByConfidence(Tail(sorted), entry)
    ELSE <<entry>> \o sorted

RECURSIVE SortByConfidence(_)
SortByConfidence(entries) ==
    IF entries = <<>> THEN <<>>
    ELSE CHOOSE out \in
            {InsertByConfidence(sorted, entries[Len(entries)]) :
                sorted \in {SortByConfidence(
                                SubSeq(entries, 1, Len(entries) - 1))}} :
            TRUE

\* lines 452-459: the CalibrationReport built from the analysed questions
CalibrationReport(ms, total_questions, now) ==
    LET stats == report_level_stats(ms)
        accuracy == report_level_accuracy(stats)
        flagged == SelectSeq(ms, LAMBDA m : m.needs_review)
    IN  [total_questions |-> total_questions,
         questions_needing_review |-> needs_review_count(ms),
         misclassified_questions |->
            SortByConfidence([i \in DOMAIN flagged |->
                                 Misclassified(flagged[i])]),
         level_accuracy |-> accuracy,
         recommendations |->
            recommendations_of(needs_review_count(ms), total_questions,
                               LevelOrder(ms), accuracy),
         generated_at |-> now]

\* the upserts of the analysed questions, in the order of the loop
RECURSIVE SaveAll(_, _, _)
SaveAll(table, ms, now) ==
    IF ms = <<>> THEN table
    ELSE CHOOSE out \in
            {save_question_metrics(saved, ms[Len(ms)], now) :
                saved \in {SaveAll(table, SubSeq(ms, 1, Len(ms) - 1), now)}} :
            TRUE

\* the levels of the questions of a drawn bank
ReportLevels == {"A2", "B1"}

\* a bank question as drawn: its level, and whether the completed session
\* has answered it
ReportDraws ==
    UNION {[1..n -> [level : ReportLevels, answered : BOOLEAN]] :
            n \in 0..MaxReportBank}

\* a store of the drawn questions and one completed session of level B1
\* that answered, correctly, the questions drawn as answered
ReportStore(draw) ==
    LET answered == SelectSeq([q \in DOMAIN draw |-> q],
                              LAMBDA q : draw[q].answered)
        rows == [i \in DOMAIN answered |->
                    [session_id |-> 1,
                     question_id |-> answered[i],
                     question_sequence |-> i,
                     student_answer |-> <<"a">>,
                     is_correct |-> TRUE,
                     time_taken_seconds |-> 4,
                     difficulty_at_question |-> draw[answered[i]].level]]
    IN  [sessions |-> <<SessionRow(1, 2, "B1", rows)>>,
         responses |-> rows,
         questions |-> [q \in DOMAIN draw |->
                           BankQuestion(draw[q].level, "grammar")]]

InitReport ==
    /\ \E draw \in ReportDraws :
          LET store == ReportStore(draw)
          IN  /\ sessions = store.sessions
              /\ responses = store.responses
              /\ questions = store.questions
              /\ clock = LatestTime(store.sessions)
    /\ req = [r \in Slots |-> IdleReq]
    /\ selections = <<>>
    /\ overlaps = 0
    /\ engine = NewEngine(1)
    /\ metrics = <<>>
    /\ returned = NoReturn
    /\ import_history = <<>>
    /\ import_errors = <<>>
    /\ reclassification_history = <<>>
    /\ import_run = NoImport
    /\ calibration_reports = <<>>

\* the statements of generate_calibration_report outside the try: the SELECT
\* of the ids and the INSERT of the report
ReportFailures == {"none", "select", "insert"}

\* generate_calibration_report(save_to_db), lines 397-465, as one step: the
\* SELECT of the ids, the analysis of each question (with its upsert when
\* saving), the report and its INSERT. failing are the questions whose
\* analysis raises, which the except clause at 428-429 passes over; fails
\* names the statement outside the try that the store refuses, if any.
\* The clock is read at 458 for generated_at; a run that reads it advances
\* it.
\* skipped records the questions passed over; the handler keeps no such
\* value.
Report(save_to_db, failing, fails) ==
    /\ clock < LatestTime(sessions) + MaxReports
    /\ fails = "insert" => save_to_db
    /\ IF fails = "select"
       THEN /\ returned' = [kind |-> "error", status |-> 500]
            /\ UNCHANGED <<metrics, clock, calibration_reports>>
       ELSE LET ms == AnalysedMetrics(sessions, responses, questions, failing)
                report == CalibrationReport(ms, Len(questions), Now)
            IN  /\ clock' = Now
                /\ IF save_to_db
                   THEN metrics' = SaveAll(metrics, ms, Now)
                   ELSE UNCHANGED metrics
                /\ IF fails = "insert"
                   THEN /\ returned' = [kind |-> "error", status |-> 500]
                        /\ UNCHANGED calibration_reports
                   ELSE /\ returned' = [kind |-> "report",
                                        report |-> report,
                                        skipped |-> failing]
                        /\ IF save_to_db
                           THEN calibration_reports' =
                                    Append(calibration_reports, report)
                           ELSE UNCHANGED calibration_reports
    /\ UNCHANGED <<sessions, responses, questions, req, selections, overlaps,
                   engine, import_history, import_errors,
                   reclassification_history, import_run>>

\* the sets of questions whose analysis may raise in one run
FailingSets ==
    {failing \in SUBSET (DOMAIN questions) :
        Cardinality(failing) <= MaxFailedAnalyses}

\* a refused SELECT ends the call before its other inputs are looked at
NextReport ==
    \/ \E save_to_db \in BOOLEAN, failing \in FailingSets,
          fails \in ReportFailures \ {"select"} :
           Report(save_to_db, failing, fails)
    \/ Report(FALSE, {}, "select")

SpecReport == InitReport /\ [][NextReport]_vars

(* --------------------- claims on the calibration report ---------------- *)

\* the questions of the bank that an analysis flags for review
FlaggedQuestions ==
    {q \in DOMAIN questions :
        analyze_question_performance(sessions, responses, questions,
                                     q).needs_review}

\* the questions of the bank at a level
QuestionsAt(level) ==
    {q \in DOMAIN questions : questions[q].difficulty_level = level}

\* C31: every calibration report counts each question of the bank exactly
\* once, as needing review or as well calibrated at its level: the number
\* needing review is the number of flagged questions of the bank, with the
\* well-calibrated ones it makes up total_questions, and each level of the
\* bank has as percentage its questions not flagged out of all its questions
C31_ReportCountsEveryQuestionOnce ==
    returned.kind = "report" =>
        LET report == returned.report
        IN  /\ report.total_questions = Len(questions)
            /\ report.questions_needing_review = Cardinality(FlaggedQuestions)
            /\ \A level \in {questions[q].difficulty_level :
                                q \in DOMAIN questions} :
                  /\ level \in DOMAIN report.level_accuracy
                  /\ report.level_accuracy[level] =
                        Round(10000 * Cardinality(QuestionsAt(level)
                                                    \ FlaggedQuestions),
                              Cardinality(QuestionsAt(level)))

\* a report of a run in which no analysis failed counts every question
C31_HoldsWithoutFailure ==
    (returned.kind = "report" /\ returned.skipped = {}) =>
        C31_ReportCountsEveryQuestionOnce

\* the recommendations of a kind in a report
RecommendationsOf(report, kind) ==
    {i \in DOMAIN report.recommendations :
        report.recommendations[i].kind = kind}

\* the levels a report gives less than 70 percent
LevelsUnderSeventy(report) ==
    {level \in DOMAIN report.level_accuracy :
        report.level_accuracy[level] < 7000}

\* C32: the recommendations of a report hold the bank-wide alert exactly
\* when more than a fifth of the bank is flagged, one alert for each level
\* under 70 percent and for no other level, and the affirmative message,
\* alone, exactly when no alert is given; they are never empty
C32_RecommendationsMatchThresholds ==
    returned.kind = "report" =>
        LET report == returned.report
            recs == report.recommendations
            flagged_share_over_fifth ==
                5 * report.questions_needing_review > report.total_questions
        IN  /\ recs # <<>>
            /\ Cardinality(RecommendationsOf(report, "high_priority")) =
                  (IF flagged_share_over_fifth THEN 1 ELSE 0)
            /\ \A level \in Levels :
                  Cardinality({i \in RecommendationsOf(report, "level") :
                                  recs[i].level = level}) =
                      (IF level \in LevelsUnderSeventy(report) THEN 1 ELSE 0)
            /\ Cardinality(RecommendationsOf(report, "well_calibrated")) =
                  (IF ~flagged_share_over_fifth
                      /\ LevelsUnderSeventy(report) = {}
                   THEN 1 ELSE 0)
            /\ \A i \in DOMAIN recs :
                  recs[i].kind \in {"high_priority", "level", "well_calibrated"}
            /\ RecommendationsOf(report, "well_calibrated") # {} =>
                  Len(recs) = 1

\* a report of five questions of which one is flagged, which is a fifth and
\* gives no bank-wide alert, with an alert for the level of that question
C32_Witness ==
    /\ returned.kind = "report"
    /\ returned.report.total_questions = 5
    /\ returned.report.questions_needing_review = 1
    /\ RecommendationsOf(returned.report, "high_priority") = {}
    /\ \E i \in RecommendationsOf(returned.report, "level") :
          returned.report.recommendations[i].level = "A2"

\* the questions a report names: those of its misclassified entries; a
\* CalibrationReport has no other field that holds a question
QuestionsNamed(report) ==
    {report.misclassified_questions[i].question_id :
        i \in DOMAIN report.misclassified_questions}

\* C33: a failing analysis of one question does not abort the calibration
\* report, and the report returned names every question whose analysis
\* failed
C33_FailuresCollectedAndReported ==
    returned.kind = "report" =>
        returned.skipped \subseteq QuestionsNamed(returned.report)

\* a run with a failing analysis ends with a report all the same
C33_ReportReturnedDespiteFailure ==
    [][\A save_to_db \in BOOLEAN, failing \in FailingSets :
          Report(save_to_db, failing, "none") => returned'.kind = "report"]_vars

(* ------------------ claims on the outcome of a session ----------------- *)

\* C34: once a session has its completion time, its detected level or its
\* confidence score, no later step of any request changes that value
C34_OutcomeNeverRewritten ==
    [][\A s \in DOMAIN sessions :
          /\ sessions[s].completed_at # NoTime =>
                sessions'[s].completed_at = sessions[s].completed_at
          /\ sessions[s].final_detected_level # NULL =>
                sessions'[s].final_detected_level =
                    sessions[s].final_detected_level
          /\ sessions[s].confidence_score # NoScore =>
                sessions'[s].confidence_score = sessions[s].confidence_score]_vars

\* the stored responses of a session that a refused UPDATE may leave
\* uncounted
MaxUncounted == 1

\* lines 526-536 when the store refuses the UPDATE of the counters: the
\* INSERT of the response at 524 is committed already; execute_query raises
\* HTTPException(500), which nothing in submit_answer catches
SubmitUpdateFails(r) ==
    /\ req[r].pc = "submit_4"
    /\ Len(RowsOf(req[r].session_id))
          - sessions[req[r].session_id].questions_answered <= MaxUncounted
    /\ req' = [req EXCEPT ![r] = Done("submit", Error(500))]
    /\ UNCHANGED <<sessions, responses, questions, clock, selections,
                   overlaps, engine, metrics, returned, logs>>

\* the assessment API served one request at a time by a store that may
\* refuse the UPDATE of the counters of a session
NextPartial ==
    \/ NextSeq
    \/ SubmitUpdateFails(1)

SpecPartial == Init /\ [][NextPartial]_vars

\* C35: whenever no request is in flight, the counters of every session
\* agree with its stored responses: questions_answered is their number,
\* correct_answers the number of correct ones and total_time_seconds the sum
\* of their times
C35_CountersAgreeWithResponses ==
    Busy = {} =>
        \A s \in DOMAIN sessions :
            /\ sessions[s].questions_answered = Len(RowsOf(s))
            /\ sessions[s].correct_answers =
                  Len(SelectSeq(RowsOf(s), LAMBDA x : x.is_correct))
            /\ sessions[s].total_time_seconds = SumTimeTaken(RowsOf(s))

\* the requests whose reply to submit_answer reports success
SubmitReplies ==
    {r \in Slots : /\ req[r].pc = "done"
                   /\ req[r].op = "submit"
                   /\ req[r].reply.status = 200}

\* C36: every reply of submit_answer agrees with itself: it says complete
\* exactly when it poses no next question and exactly when it gives zero
\* questions remaining, and a reply with a next question gives at least one
\* remaining; the number remaining is the announced total of 10 less the
\* answers accepted so far
C36_ReplySelfConsistent ==
    \A r \in SubmitReplies :
        LET reply == req[r].reply
        IN  /\ reply.is_complete <=> reply.question = NoQuestion
            /\ reply.is_complete <=> reply.questions_remaining = 0
            /\ reply.question # NoQuestion => reply.questions_remaining >= 1
            /\ reply.questions_remaining =
                  max_questions - Len(RowsOf(reply.session_id))

\* banks a start request may meet: the one of Init, one with no question at
\* the level of the first selection, and one with no question at all
SparseBanks == {InitBank, <<BankQuestion("C2", "grammar")>>, <<>>}

InitSparse ==
    /\ sessions = <<>>
    /\ responses = <<>>
    /\ questions \in SparseBanks
    /\ clock = 0
    /\ req = [r \in Slots |-> IdleReq]
    /\ selections = <<>>
    /\ overlaps = 0
    /\ engine = NewEngine(1)
    /\ metrics = <<>>
    /\ returned = NoReturn
    /\ import_history = <<>>
    /\ import_errors = <<>>
    /\ reclassification_history = <<>>
    /\ import_run = NoImport
    /\ calibration_reports = <<>>

\* sessions being opened and cancelled over any of these banks
SpecSparse == InitSparse /\ [][NextStart]_vars

\* C37: a start_assessment that fails leaves the session store unchanged: a
\* request that has inserted its session row does not end in an error
C37_FailedStartInsertsNothing ==
    [][\A r \in Slots :
          (req[r].pc = "start_3" /\ req'[r].pc = "done") =>
              req'[r].reply.status = 200]_vars

\* a start request refused at either check has written nothing
C37_RefusedStartWritesNothing ==
    [][\A r \in Slots :
          (/\ req[r].pc \in {"idle", "start_1"}
           /\ req'[r].pc = "done"
           /\ req'[r].op = "start") => sessions' = sessions]_vars

\* the questions posed to a session so far
PosedTo(session_id) ==
    {selections[session_id][k].question_id :
        k \in DOMAIN selections[session_id]}

\* the first answers of a session for which a request may name any question
MaxAnyQuestionAnswers == 2

\* question ids a submit request may name: any id of the bank and an unknown
\* one for the first answers of a session, then as in QuestionInputs
AnyQuestionInputs(session_id) ==
    IF /\ session_id \in DOMAIN sessions
       /\ Len(RowsOf(session_id)) < MaxAnyQuestionAnswers
    THEN 1..(Len(questions) + 1)
    ELSE QuestionInputs(session_id)

\* submit_answer with the question named freely
SubmitAny(r) ==
    \/ \E session_id \in SessionInputs : SubmitReadSession(r, session_id)
    \/ \E question_id \in AnyQuestionInputs(req[r].session_id) :
          SubmitReadQuestion(r, question_id)
    \/ SubmitLoadResponses(r)
    \/ \E student_answer \in validate_answer(req[r].session_id),
          time_taken \in TimeInputs(req[r].session_id) :
          SubmitRecordResponse(r, student_answer, time_taken)
    \/ SubmitUpdateStats(r)
    \/ SubmitFinalize(r)
    \/ SubmitLevelDifference(r)
    \/ SubmitNextQuestion(r)

\* the assessment API, its requests served one at a time, with requests
\* that may name any question
NextAnyQuestion ==
    \/ Start(1, MaxSessions)
    \/ SubmitAny(1)
    \/ Cancel(1)
    \/ Return(1)

SpecAnyQuestion == Init /\ [][NextAnyQuestion]_vars

\* every stored response is for a question posed to its session
RecordedWasPosed ==
    \A i \in DOMAIN responses :
        responses[i].question_id \in PosedTo(responses[i].session_id)

\* C38: a response is recorded only for a question that was posed to its
\* session and that the session has not answered yet: every stored response
\* is for a posed question, and no session holds two responses to one
\* question
C38_OnlyPosedUnansweredRecorded ==
    /\ RecordedWasPosed
    /\ \A i, j \in DOMAIN responses :
          (/\ responses[i].session_id = responses[j].session_id
           /\ responses[i].question_id = responses[j].question_id) => i = j

\* a request that names a question that is not in the bank records nothing
C38_UnknownQuestionRecordsNothing ==
    [][\A r \in Slots :
          (req[r].pc = "submit_1" /\ req'[r].pc = "done") =>
              responses' = responses]_vars

(* --------------------- claims on the level counts ---------------------- *)

\* the sum of the counts of a student_levels_attempted map
RECURSIVE SumOfCounts(_, _)
SumOfCounts(counts, levels) ==
    IF levels = {} THEN 0
    ELSE LET level == CHOOSE x \in levels : TRUE
         IN  counts[level] + SumOfCounts(counts, levels \ {level})

\* C39: in every metrics record the counts of student_levels_attempted sum
\* to total_attempts, attempts made in cancelled sessions included
C39_LevelCountsSumToTotal ==
    returned.kind = "metrics" =>
        SumOfCounts(returned.metrics.student_levels_attempted,
                    DOMAIN returned.metrics.student_levels_attempted)
            = returned.metrics.total_attempts

\* the sessions that were cancelled: completed with no level
CancelledSessions ==
    {s \in DOMAIN sessions : /\ sessions[s].completed_at # NoTime
                             /\ sessions[s].final_detected_level = NULL}

\* the counts do sum to the total when no cancelled session holds a response
C39_HoldsWithoutCancelledAttempts ==
    (\A i \in DOMAIN responses :
        responses[i].session_id \notin CancelledSessions) =>
        C39_LevelCountsSumToTotal

====
